---- MODULE Spec2Model ----
(***************************************************************************)
(* devpath-cli: the project analysis pipeline.                             *)
(*                                                                         *)
(*   analyzeProject (services/analyzer.js) checks the project directory,   *)
(*   scans it (scanDirectory), summarizes its structure (analyzeStructure),*)
(*   detects the tech stack (detectTechStack, with detectLanguages,        *)
(*   detectFrameworks and detectTools of utils/tech-detector.js) and       *)
(*   collects quality insights (analyzeCodeQuality of                      *)
(*   utils/code-quality.js).                                               *)
(*                                                                         *)
(* Strings are TLA+ strings; file paths are the strings the JavaScript     *)
(* code handles.  A directory tree is the set of its files, each the tuple *)
(* of the names on the way from the root to the file.                      *)
(***************************************************************************)
EXTENDS Integers, Sequences, FiniteSets, TLC

VARIABLES
    pc,          \* the stage the run is at
    host,        \* "posix", "win32" or "wsl": the path module in use, and os.release()
    inputPath,   \* the project path as it was given
    options,     \* the options of the recommend command: type, limit, difficulty
    readdirRev,  \* the order fs.readdir lists a directory in (unspecified)
    pathKind,    \* what fs.stat finds at the project path: "dir", "file", "missing"
    tree,        \* the files under the project directory (tuples of names)
    unreadable,  \* the directories whose fs.readdir fails
    depth,       \* the depth given: none (<<>>), scanDirectory's maxDepth (<<d>>),
                 \* or the value of options.depth (<<v>>, v a number or string value)
    manifest,    \* package.json at the project root, as readFile/JSON.parse find it
    contents,    \* file path -> number of '\n' separated lines, -1: unreadable
    variant,     \* which implementation of the language histogram runs
    files,       \* the file list (relative forward-slash paths)
    directories, \* analyzeStructure: the groups (keys in insertion order, lists)
    structure,   \* analyzeStructure: the text
    packageJson, \* detectTechStack: the parsed manifest, or null
    languages,   \* the detected languages
    frameworks,  \* the detected frameworks
    tools,       \* the detected tools
    insights,    \* the quality insights
    jsQueue,     \* checkBestPractices: the .js/.jsx files still to read
    reads,       \* the files whose content has been read for the line count
    failure,     \* the error raised, <<>> when none
    outcome      \* "running", "returned" or "thrown", with the value returned

vars == << pc, host, inputPath, options, readdirRev, pathKind, tree, unreadable, depth, manifest,
           contents, variant, files, directories, structure, packageJson,
           languages, frameworks, tools, insights, jsQueue, reads, failure,
           outcome >>

inputVars == << host, inputPath, options, readdirRev, pathKind, tree, unreadable, depth, manifest,
                contents, variant >>

-----------------------------------------------------------------------------
(* Sequences *)

Range(s) == { s[i] : i \in 1..Len(s) }

NoDuplicates(s) == \A i, j \in 1..Len(s) : i # j => s[i] # s[j]

Reverse(s) == [ i \in 1..Len(s) |-> s[Len(s) + 1 - i] ]

IsPrefix(p, s) == Len(p) <= Len(s) /\ SubSeq(s, 1, Len(p)) = p

Max(a, b) == IF a >= b THEN a ELSE b
Min(a, b) == IF a <= b THEN a ELSE b

RECURSIVE SeqsOver(_, _)
\* The sequences without repetition of at most n elements of S.
SeqsOver(S, n) ==
    IF n = 0 THEN { <<>> }
    ELSE LET shorter == SeqsOver(S, n - 1)
         IN shorter \cup UNION { { Append(s, x) : x \in S \ { s[i] : i \in 1..Len(s) } } :
                                  s \in shorter }

RECURSIVE TuplesOver(_, _)
\* The tuples of at most n elements of S, repetitions allowed.
TuplesOver(S, n) ==
    IF n = 0 THEN { <<>> }
    ELSE LET shorter == TuplesOver(S, n - 1)
         IN shorter \cup { Append(s, x) : s \in shorter, x \in S }

-----------------------------------------------------------------------------
(* JavaScript strings and the path module *)

CharAt(s, i) == SubSeq(s, i, i)

\* String.prototype.endsWith
EndsWith(s, p) == Len(p) <= Len(s) /\ SubSeq(s, Len(s) - Len(p) + 1, Len(s)) = p

\* String.prototype.startsWith
StartsWith(s, p) == Len(p) <= Len(s) /\ SubSeq(s, 1, Len(p)) = p

\* String.prototype.includes
Includes(s, p) == \E i \in 1..(Len(s) - Len(p) + 1) : SubSeq(s, i, i + Len(p) - 1) = p

\* String.prototype.lastIndexOf for one character, 1-based, 0 when absent
LastIndexOf(s, c) ==
    LET hits == { i \in 1..Len(s) : CharAt(s, i) = c }
    IN IF hits = {} THEN 0 ELSE CHOOSE i \in hits : \A j \in hits : j <= i

RECURSIVE ReplaceAll(_, _, _)
\* s.replace(/c/g, d) for single characters c and d
ReplaceAll(s, c, d) ==
    IF s = "" THEN ""
    ELSE (IF CharAt(s, 1) = c THEN d ELSE CharAt(s, 1))
             \o ReplaceAll(SubSeq(s, 2, Len(s)), c, d)

UpperCase == "ABCDEFGHIJKLMNOPQRSTUVWXYZ"
LowerCase == "abcdefghijklmnopqrstuvwxyz"

LowerChar(c) ==
    LET hits == { i \in 1..Len(UpperCase) : CharAt(UpperCase, i) = c }
    IN IF hits = {} THEN c ELSE CharAt(LowerCase, CHOOSE i \in hits : TRUE)

RECURSIVE ToLowerCase(_)
\* String.prototype.toLowerCase
ToLowerCase(s) ==
    IF s = "" THEN "" ELSE LowerChar(CharAt(s, 1)) \o ToLowerCase(SubSeq(s, 2, Len(s)))

\* The printable ASCII characters in code order, for string comparison.
Ascii == " !\"#$%&'()*+,-./0123456789:;<=>?@ABCDEFGHIJKLMNOPQRSTUVWXYZ[\\]^_abcdefghijklmnopqrstuvwxyz{|}~"

CharCode(c) == CHOOSE i \in 1..Len(Ascii) : CharAt(Ascii, i) = c

RECURSIVE StrLess(_, _)
\* a < b on JavaScript strings (code unit order)
StrLess(a, b) ==
    IF b = "" THEN FALSE
    ELSE IF a = "" THEN TRUE
    ELSE IF CharAt(a, 1) = CharAt(b, 1)
         THEN StrLess(SubSeq(a, 2, Len(a)), SubSeq(b, 2, Len(b)))
         ELSE CharCode(CharAt(a, 1)) < CharCode(CharAt(b, 1))

\* path.basename of a relative forward-slash path
Basename(p) == SubSeq(p, LastIndexOf(p, "/") + 1, Len(p))

\* path.dirname of a relative forward-slash path
Dirname(p) ==
    LET i == LastIndexOf(p, "/")
    IN IF i = 0 THEN "." ELSE IF i = 1 THEN "/" ELSE SubSeq(p, 1, i - 1)

\* path.extname: from the last '.' of the basename, '' when there is none or when
\* it is the basename's first character
Extname(p) ==
    LET b == Basename(p)
        i == LastIndexOf(b, ".")
    IN IF i <= 1 \/ b = ".." THEN "" ELSE SubSeq(b, i, Len(b))

RECURSIVE SplitPath(_)
\* p.split('/')
SplitPath(p) ==
    LET hits == { i \in 1..Len(p) : CharAt(p, i) = "/" }
    IN IF hits = {} THEN << p >>
       ELSE LET i == CHOOSE k \in hits : \A j \in hits : k <= j
            IN << SubSeq(p, 1, i - 1) >> \o SplitPath(SubSeq(p, i + 1, Len(p)))

RECURSIVE Join(_, _)
\* path.join of the names of a path below the base directory
Join(names, sep) ==
    IF names = <<>> THEN ""
    ELSE IF Len(names) = 1 THEN names[1]
    ELSE names[1] \o sep \o Join(Tail(names), sep)

Sep == IF host = "win32" THEN "\\" ELSE "/"

-----------------------------------------------------------------------------
(* The directory tree, as fs.readdir and the Dirent objects show it *)

\* The directories of a tree: the root <<>> and every proper prefix of a file.
DirsOf(t) == UNION { { SubSeq(f, 1, k) : k \in 0..(Len(f) - 1) } : f \in t }

\* The names fs.readdir lists in directory dir.
EntryNames(dir) ==
    { f[Len(dir) + 1] : f \in { g \in tree : Len(g) > Len(dir) /\ IsPrefix(dir, g) } }

\* entry.isDirectory()
IsDirectory(dir, name) == Append(dir, name) \in DirsOf(tree)

\* Every name a tree of the model may hold, in the order fs.readdir lists them
\* (the reverse when readdirRev).
AllNames ==
    << ".git", ".gitignore", "App.jsx", "Dist", "README.md", "build", "constructor",
       "dist", "f.txt", "index.js", "lib", "loop", "node_modules", "package.json", "src" >>

\* fs.readdir(dirPath, { withFileTypes: true })
Readdir(dir) ==
    SelectSeq(IF readdirRev THEN Reverse(AllNames) ELSE AllNames,
              LAMBDA n : n \in EntryNames(dir))

ReaddirFailsAbove(dir) == \E d \in unreadable : IsPrefix(dir, d)

\* fs.readdir throws (permission denied, deleted meanwhile)
ReaddirFails(dir) == dir \in unreadable

-----------------------------------------------------------------------------
(* scanDirectory *)

\* The values options.depth may have: a number (a caller's { depth: 3 }) or a
\* string (commander hands --depth over as it was typed).
NumberValue(n) == [ number |-> n ]

StringValue(s) == [ string |-> s ]

IsNumberValue(v) == DOMAIN v = { "number" }

\* !value for a number or a string
Falsy(v) == IF IsNumberValue(v) THEN v.number = 0 ELSE v.string = ""

\* A number is << n >>; NaN is the number no comparison is true of.
NaN == << >>

Digits == "0123456789"

IsDigits(s) == s # "" /\ \A i \in 1..Len(s) : \E d \in 1..Len(Digits) : CharAt(s, i) = CharAt(Digits, d)

RECURSIVE DecimalValue(_, _)
DecimalValue(s, acc) ==
    IF s = "" THEN acc
    ELSE DecimalValue(SubSeq(s, 2, Len(s)),
                      acc * 10 + (CHOOSE d \in 0..9 : CharAt(Digits, d + 1) = CharAt(s, 1)))

\* ToNumber, which the comparison with a number applies to its other operand: the
\* empty string is 0, a decimal integer literal with or without sign its value, and
\* a string that is no numeric literal NaN.
ToNumber(v) ==
    IF IsNumberValue(v) THEN << v.number >>
    ELSE IF v.string = "" THEN << 0 >>
    ELSE IF IsDigits(v.string) THEN << DecimalValue(v.string, 0) >>
    ELSE IF StartsWith(v.string, "-") /\ IsDigits(SubSeq(v.string, 2, Len(v.string)))
    THEN << 0 - DecimalValue(SubSeq(v.string, 2, Len(v.string)), 0) >>
    ELSE NaN

DepthExceededOffByOne(currentDepth, maxDepth) ==
    LET n == ToNumber(maxDepth) IN n # NaN /\ currentDepth >= n[1]

\* if (currentDepth > maxDepth) return []
DepthExceeded(currentDepth, maxDepth) ==
    LET n == ToNumber(maxDepth) IN n # NaN /\ currentDepth > n[1]

IsSkippedDirNoBuild(name) == name \in { "node_modules", "dist", ".git" }

\* entry.name === 'node_modules' || 'dist' || 'build' || '.git'
IsSkippedDir(name) ==
    \/ name = "node_modules"
    \/ name = "dist"
    \/ name = "build"
    \/ name = ".git"

\* path.relative(basePath, fullPath).replace(/\\/g, '/')
RelativePath(names) == ReplaceAll(Join(names, Sep), "\\", "/")

RECURSIVE scanDirectory(_, _, _)
RECURSIVE ScanEntries(_, _, _, _)

\* The for loop over the entries of one directory.
ScanEntries(dirPath, entries, maxDepth, currentDepth) ==
    IF entries = <<>> THEN <<>>
    ELSE LET name == Head(entries)
             found ==
                 IF IsDirectory(dirPath, name)
                 THEN IF IsSkippedDir(name)
                      THEN <<>>
                      ELSE scanDirectory(Append(dirPath, name), maxDepth,
                                         currentDepth + 1)
                 ELSE << RelativePath(Append(dirPath, name)) >>
         IN found \o ScanEntries(dirPath, Tail(entries), maxDepth, currentDepth)

\* scanDirectory(dirPath, maxDepth, currentDepth, basePath): dirPath is given by
\* its names below basePath.
scanDirectory(dirPath, maxDepth, currentDepth) ==
    IF DepthExceeded(currentDepth, maxDepth) THEN <<>>
    ELSE IF ReaddirFails(dirPath) THEN <<>>
    ELSE ScanEntries(dirPath, Readdir(dirPath), maxDepth, currentDepth)

RECURSIVE DeepestBelow(_, _, _, _), deepestCall(_, _, _)
DeepestBelow(dirPath, entries, maxDepth, currentDepth) ==
    IF entries = <<>> THEN currentDepth
    ELSE LET name == Head(entries)
             below ==
                 IF IsDirectory(dirPath, name) /\ ~IsSkippedDir(name)
                 THEN deepestCall(Append(dirPath, name), maxDepth, currentDepth + 1)
                 ELSE currentDepth
         IN Max(below, DeepestBelow(dirPath, Tail(entries), maxDepth, currentDepth))

\* The largest currentDepth among the calls of scanDirectory that the call with
\* these arguments leads to, itself included.
deepestCall(dirPath, maxDepth, currentDepth) ==
    IF DepthExceeded(currentDepth, maxDepth) THEN currentDepth
    ELSE IF ReaddirFails(dirPath) THEN currentDepth
    ELSE DeepestBelow(dirPath, Readdir(dirPath), maxDepth, currentDepth)

-----------------------------------------------------------------------------
(* utils/tech-detector.js: detectLanguages *)

\* JavaScript null / undefined
Null == [ kind |-> "null" ]

\* An object with no keys (no entries).
EmptyObject == << >>

\* JavaScript objects keep string keys in insertion order: an object is the
\* sequence of its [key, value] entries.
HasKey(obj, k) == \E i \in 1..Len(obj) : obj[i].key = k

ValueOf(obj, k) == obj[CHOOSE i \in 1..Len(obj) : obj[i].key = k].value

\* obj[k] = v
SetKey(obj, k, v) ==
    IF HasKey(obj, k)
    THEN [ i \in 1..Len(obj) |-> IF obj[i].key = k THEN [ key |-> k, value |-> v ] ELSE obj[i] ]
    ELSE Append(obj, [ key |-> k, value |-> v ])

ExtensionOfCaseSensitive(file) == Extname(file)

\* const ext = path.extname(file).toLowerCase()
ExtensionOf(file) == ToLowerCase(Extname(file))

RECURSIVE CountExtensions(_, _)
\* files.forEach: if (ext) { extensions[ext] = (extensions[ext] || 0) + 1 }
CountExtensions(fileList, extensions) ==
    IF fileList = <<>> THEN extensions
    ELSE LET ext == ExtensionOf(Head(fileList))
             counted ==
                 IF ext = "" THEN extensions
                 ELSE SetKey(extensions, ext,
                             (IF HasKey(extensions, ext) THEN ValueOf(extensions, ext) ELSE 0) + 1)
         IN CountExtensions(Tail(fileList), counted)

\* const extensionMap = { ... } of detectLanguages
extensionMap ==
    ".js" :> "JavaScript" @@ ".jsx" :> "JavaScript (React)" @@ ".ts" :> "TypeScript" @@
    ".tsx" :> "TypeScript (React)" @@ ".html" :> "HTML" @@ ".css" :> "CSS" @@
    ".scss" :> "SCSS" @@ ".sass" :> "Sass" @@ ".less" :> "Less" @@ ".py" :> "Python" @@
    ".rb" :> "Ruby" @@ ".java" :> "Java" @@ ".php" :> "PHP" @@ ".go" :> "Go" @@
    ".rs" :> "Rust" @@ ".c" :> "C" @@ ".cpp" :> "C++" @@ ".cs" :> "C#" @@
    ".swift" :> "Swift" @@ ".kt" :> "Kotlin" @@ ".sh" :> "Shell" @@ ".md" :> "Markdown" @@
    ".json" :> "JSON" @@ ".yml" :> "YAML" @@ ".yaml" :> "YAML" @@ ".xml" :> "XML" @@
    ".sql" :> "SQL"

RECURSIVE InsertByCount(_, _)
\* x goes before the first entry with a smaller count: entries with equal counts
\* keep the order they had.
InsertByCount(sorted, x) ==
    IF sorted = <<>> THEN << x >>
    ELSE IF x.count > Head(sorted).count THEN << x >> \o sorted
    ELSE << Head(sorted) >> \o InsertByCount(Tail(sorted), x)

RECURSIVE SortByCount(_, _)
SortByCount(entries, sorted) ==
    IF entries = <<>> THEN sorted
    ELSE SortByCount(Tail(entries), InsertByCount(sorted, Head(entries)))

\* languages.sort((a, b) => b.count - a.count): Array.prototype.sort is stable
SortByCountDescending(entries) == SortByCount(entries, <<>>)

RECURSIVE KnownLanguages(_)
\* Object.entries(extensions).forEach: if (extensionMap[ext]) languages.push(...)
KnownLanguages(extensions) ==
    IF extensions = <<>> THEN <<>>
    ELSE LET e == Head(extensions)
         IN (IF e.key \in DOMAIN extensionMap
             THEN << [ name |-> extensionMap[e.key], count |-> e.value, extension |-> e.key ] >>
             ELSE <<>>) \o KnownLanguages(Tail(extensions))

detectLanguages(fileList) ==
    SortByCountDescending(KnownLanguages(CountExtensions(fileList, <<>>)))

-----------------------------------------------------------------------------
(* services/analyzer.js, the standalone variant: the language histogram of   *)
(* its analyzeProject                                                        *)

\* const extensionMap = { ... } of getLanguageNameFromExtension
standaloneExtensionMap ==
    ".js" :> "JavaScript" @@ ".jsx" :> "JavaScript (React)" @@ ".ts" :> "TypeScript" @@
    ".tsx" :> "TypeScript (React)" @@ ".html" :> "HTML" @@ ".css" :> "CSS" @@
    ".scss" :> "SCSS" @@ ".sass" :> "Sass" @@ ".less" :> "Less" @@ ".py" :> "Python" @@
    ".java" :> "Java" @@ ".rb" :> "Ruby" @@ ".php" :> "PHP" @@ ".go" :> "Go" @@
    ".rs" :> "Rust" @@ ".c" :> "C" @@ ".cpp" :> "C++" @@ ".cs" :> "C#" @@
    ".swift" :> "Swift" @@ ".kt" :> "Kotlin" @@ ".vue" :> "Vue" @@ ".json" :> "JSON" @@
    ".md" :> "Markdown" @@ ".graphql" :> "GraphQL" @@ ".yml" :> "YAML" @@
    ".yaml" :> "YAML" @@ ".toml" :> "TOML" @@ ".sql" :> "SQL" @@ ".sh" :> "Shell" @@
    ".bat" :> "Batch" @@ ".ps1" :> "PowerShell" @@ ".png" :> "Image (PNG)" @@
    ".jpg" :> "Image (JPG)" @@ ".jpeg" :> "Image (JPEG)" @@ ".gif" :> "Image (GIF)" @@
    ".svg" :> "Image (SVG)" @@ ".ico" :> "Image (ICO)" @@ ".cjs" :> "CommonJS"

\* return extensionMap[extension] || `Unknown (${extension})`
getLanguageNameFromExtension(extension) ==
    IF extension \in DOMAIN standaloneExtensionMap
    THEN standaloneExtensionMap[extension]
    ELSE "Unknown (" \o extension \o ")"

\* Object.entries(languageCounts).map(([extension, count]) => ({ name, count, extension }))
NamedLanguages(languageCounts) ==
    [ i \in 1..Len(languageCounts) |->
        [ name |-> getLanguageNameFromExtension(languageCounts[i].key),
          count |-> languageCounts[i].value,
          extension |-> languageCounts[i].key ] ]

\* The languages of the standalone analyzeProject.
standaloneLanguages(fileList) ==
    SortByCountDescending(NamedLanguages(CountExtensions(fileList, <<>>)))

-----------------------------------------------------------------------------
(* utils/tech-detector.js: detectFrameworks and detectTools *)

\* x || {} for an optional object: << >> is undefined, << obj >> is obj
OrEmpty(optional) == IF optional = << >> THEN << >> ELSE optional[1]

RECURSIVE SpreadInto(_, _)
\* { ...target, ...source }
SpreadInto(target, source) ==
    IF source = << >> THEN target
    ELSE SpreadInto(SetKey(target, Head(source).key, Head(source).value), Tail(source))

\* const allDeps = { ...(packageJson.dependencies || {}), ...(packageJson.devDependencies || {}) }
AllDeps(pkg) == SpreadInto(OrEmpty(pkg.dependencies), OrEmpty(pkg.devDependencies))

\* allDeps[dep] used as a condition: the key is there and its string is not empty
Truthy(allDeps, dep) == HasKey(allDeps, dep) /\ ValueOf(allDeps, dep) # ""

\* rule.deps.find(dep => allDeps[dep]); only used when there is one
FirstTruthyDep(allDeps, deps) ==
    deps[CHOOSE i \in 1..Len(deps) :
            /\ Truthy(allDeps, deps[i])
            /\ \A j \in 1..(i - 1) : ~Truthy(allDeps, deps[j])]

HasName(entries, name) == \E i \in 1..Len(entries) : entries[i].name = name

\* { name } : a pattern-sourced entry has no version
NameWithNote(name) == [ name |-> name, version |-> << "detected from files" >> ]

NameOnly(name) == [ name |-> name, version |-> << >> ]

frameworkRules ==
    << [ name |-> "React", deps |-> << "react", "react-dom" >> ],
       [ name |-> "Angular", deps |-> << "@angular/core" >> ],
       [ name |-> "Vue.js", deps |-> << "vue" >> ],
       [ name |-> "Express", deps |-> << "express" >> ],
       [ name |-> "Next.js", deps |-> << "next" >> ],
       [ name |-> "Gatsby", deps |-> << "gatsby" >> ],
       [ name |-> "NestJS", deps |-> << "@nestjs/core" >> ],
       [ name |-> "Svelte", deps |-> << "svelte" >> ],
       [ name |-> "Electron", deps |-> << "electron" >> ],
       [ name |-> "AWS CDK", deps |-> << "aws-cdk-lib" >> ] >>

frameworkFilePatterns ==
    << [ pattern |-> "angular.json", name |-> "Angular" ],
       [ pattern |-> "vue.config.js", name |-> "Vue.js" ],
       [ pattern |-> "next.config.js", name |-> "Next.js" ],
       [ pattern |-> "gatsby-config.js", name |-> "Gatsby" ],
       [ pattern |-> "svelte.config.js", name |-> "Svelte" ],
       [ pattern |-> "electron-builder.yml", name |-> "Electron" ],
       [ pattern |-> "cdk.json", name |-> "AWS CDK" ] >>

toolRules ==
    << [ name |-> "Webpack", deps |-> << "webpack" >> ],
       [ name |-> "Babel", deps |-> << "@babel/core" >> ],
       [ name |-> "ESLint", deps |-> << "eslint" >> ],
       [ name |-> "Jest", deps |-> << "jest" >> ],
       [ name |-> "Mocha", deps |-> << "mocha" >> ],
       [ name |-> "Chai", deps |-> << "chai" >> ],
       [ name |-> "TypeScript", deps |-> << "typescript" >> ],
       [ name |-> "Prettier", deps |-> << "prettier" >> ],
       [ name |-> "Sass", deps |-> << "sass", "node-sass" >> ],
       [ name |-> "Lodash", deps |-> << "lodash" >> ],
       [ name |-> "Axios", deps |-> << "axios" >> ],
       [ name |-> "Redux", deps |-> << "redux" >> ],
       [ name |-> "GraphQL", deps |-> << "graphql" >> ],
       [ name |-> "Sequelize", deps |-> << "sequelize" >> ],
       [ name |-> "Mongoose", deps |-> << "mongoose" >> ],
       [ name |-> "Commander.js", deps |-> << "commander" >> ],
       [ name |-> "dotenv", deps |-> << "dotenv" >> ] >>

toolFilePatterns ==
    << [ pattern |-> ".eslintrc", name |-> "ESLint" ],
       [ pattern |-> ".prettierrc", name |-> "Prettier" ],
       [ pattern |-> "webpack.config.js", name |-> "Webpack" ],
       [ pattern |-> "babel.config.js", name |-> "Babel" ],
       [ pattern |-> "jest.config.js", name |-> "Jest" ],
       [ pattern |-> "tsconfig.json", name |-> "TypeScript" ],
       [ pattern |-> ".env", name |-> "dotenv" ] >>

RECURSIVE FromRules(_, _)
\* rules.forEach: a rule one of whose deps is truthy in allDeps pushes its name
\* with the first truthy version (frameworks: rule.deps.map(...).find(v => v);
\* tools: allDeps[rule.deps.find(...)], the same string)
FromRules(rules, allDeps) ==
    IF rules = << >> THEN << >>
    ELSE LET rule == Head(rules)
             found == \E i \in 1..Len(rule.deps) : Truthy(allDeps, rule.deps[i])
         IN (IF found
             THEN << [ name |-> rule.name,
                       version |-> << ValueOf(allDeps, FirstTruthyDep(allDeps, rule.deps)) >> ] >>
             ELSE << >>) \o FromRules(Tail(rules), allDeps)

FromManifestDropped(rules, pkg) == << >>

\* if (packageJson) { ... }
FromManifest(rules, pkg) ==
    IF pkg = Null THEN << >> ELSE FromRules(rules, AllDeps(pkg))

\* detectFrameworks: files.some(file => file.endsWith(pattern))
FrameworkPatternMatches(fileList, pattern) ==
    \E i \in 1..Len(fileList) : EndsWith(fileList[i], pattern)

\* detectTools: files.some(file => file.includes(pattern))
ToolPatternMatches(fileList, pattern) ==
    \E i \in 1..Len(fileList) : Includes(fileList[i], pattern)

RECURSIVE FrameworksFromPatterns(_, _, _)
\* filePatterns.forEach: only added if not already added from package.json
FrameworksFromPatterns(patterns, fileList, entries) ==
    IF patterns = << >> THEN entries
    ELSE LET p == Head(patterns)
         IN FrameworksFromPatterns(Tail(patterns), fileList,
                IF FrameworkPatternMatches(fileList, p.pattern) /\ ~HasName(entries, p.name)
                THEN Append(entries, NameOnly(p.name))
                ELSE entries)

RECURSIVE ToolsFromPatterns(_, _, _)
ToolsFromPatterns(patterns, fileList, entries) ==
    IF patterns = << >> THEN entries
    ELSE LET p == Head(patterns)
         IN ToolsFromPatterns(Tail(patterns), fileList,
                IF ToolPatternMatches(fileList, p.pattern) /\ ~HasName(entries, p.name)
                THEN Append(entries, NameOnly(p.name))
                ELSE entries)

\* files.some(file => file.endsWith('.jsx') || file.endsWith('.tsx'))
HasJsxFiles(fileList) ==
    \E i \in 1..Len(fileList) : EndsWith(fileList[i], ".jsx") \/ EndsWith(fileList[i], ".tsx")

detectFrameworks(fileList, pkg) ==
    LET entries == FrameworksFromPatterns(frameworkFilePatterns, fileList,
                                          FromManifest(frameworkRules, pkg))
    IN IF ~HasName(entries, "React") /\ HasJsxFiles(fileList)
       THEN Append(entries, NameOnly("React"))
       ELSE entries

detectTools(fileList, pkg) ==
    ToolsFromPatterns(toolFilePatterns, fileList, FromManifest(toolRules, pkg))

-----------------------------------------------------------------------------
(* Values of a run that has not produced anything yet *)

\* package.json is not there: kind "absent"; it cannot be read: "unreadable"; its
\* text is not JSON: "invalid"; otherwise "ok", with the object JSON.parse returns.
AbsentManifest == [ kind |-> "absent", value |-> Null ]

Running == [ status |-> "running" ]

\* The options the recommend command has when none is given.
DefaultOptions == [ type |-> "all", limit |-> << "5" >>, difficulty |-> << >> ]

\* The run's own variables before its first step.
Fresh ==
    /\ files = << >>
    /\ directories = EmptyObject
    /\ structure = ""
    /\ packageJson = Null
    /\ languages = << >>
    /\ frameworks = << >>
    /\ tools = << >>
    /\ insights = << >>
    /\ jsQueue = << >>
    /\ reads = << >>
    /\ failure = << >>
    /\ outcome = Running

Hosts == { "posix", "win32" }

-----------------------------------------------------------------------------
(* The scan on its own: scanDirectory(root, maxDepth) over bounded trees *)

\* The longest chain of nested directories in a scanned tree.
MaxTreeDepth == 3

\* The largest maxDepth given to the scan.
MaxDepthArg == 3

\* The four names the scan prunes, and one that differs from one of them by case.
ScanDirNames == { "Dist", "node_modules", "dist", "build", ".git" }

\* A chain of nested directories with a file in each of them, the root included.
SpineTree(spine) == { Append(SubSeq(spine, 1, k), "f.txt") : k \in 0..Len(spine) }

\* A sibling directory lib below the k-th directory of the chain, holding a file
\* that is named like a skipped directory.
SideFile(spine, k) == SubSeq(spine, 1, k) \o << "lib", "build" >>

ScanTrees ==
    UNION { { SpineTree(sp) } \cup { SpineTree(sp) \cup { SideFile(sp, k) } : k \in 0..Len(sp) } :
            sp \in TuplesOver(ScanDirNames, MaxTreeDepth) }

InitScan ==
    /\ pc = "scanDirectory"
    /\ host \in Hosts
    /\ readdirRev = FALSE
    /\ pathKind = "dir"
    /\ inputPath = "/home/user/project"
    /\ options = DefaultOptions
    /\ tree \in ScanTrees
    /\ unreadable \in { {} } \cup { { d } : d \in DirsOf(tree) }
    /\ depth \in { << d >> : d \in 0..MaxDepthArg }
    /\ manifest = AbsentManifest
    /\ contents = EmptyObject
    /\ variant = "tech-detector"
    /\ Fresh

\* A call scanDirectory(root, maxDepth).
ScanDirectory ==
    /\ pc = "scanDirectory"
    /\ files' = scanDirectory(<< >>, NumberValue(depth[1]), 0)
    /\ pc' = "scanned"
    /\ UNCHANGED << inputVars, directories, structure, packageJson, languages,
                    frameworks, tools, insights, jsQueue, reads, failure, outcome >>

NextScan == ScanDirectory

SpecScan == InitScan /\ [][NextScan]_vars

-----------------------------------------------------------------------------
(* Claims about the scan (SpecScan) *)

Scanned == pc = "scanned"

\* The directory names the scan is specified to prune.
SkipNames == { "node_modules", "dist", "build", ".git" }

HoldingDir(f) == SubSeq(f, 1, Len(f) - 1)

\* No directory from the root down to dir is skipped or unreadable.
Reachable(dir) ==
    /\ \A k \in 1..Len(dir) : dir[k] \notin SkipNames
    /\ \A k \in 0..Len(dir) : SubSeq(dir, 1, k) \notin unreadable

ExpectedFiles(maxDepth) ==
    { f \in tree : Len(HoldingDir(f)) <= maxDepth /\ Reachable(HoldingDir(f)) }

\* C1: scanDirectory(root, maxDepth) returns a file, once, exactly when its
\* directory is at depth <= maxDepth and no directory on the way to it is skipped
\* or unreadable; with maxDepth 0 it returns exactly the files directly in root.
C1_ScanDepthExact ==
    Scanned =>
        /\ Range(files) = { Join(f, "/") : f \in ExpectedFiles(depth[1]) }
        /\ Len(files) = Cardinality(ExpectedFiles(depth[1]))
        /\ (depth = << 0 >> /\ << >> \notin unreadable) =>
               Range(files) = { f[1] : f \in { g \in tree : Len(g) = 1 } }

\* A scan with maxDepth 1 of a readable tree that returned a file of a depth-1
\* directory and left out a file of an unskipped depth-2 directory.
C1_Witness ==
    /\ Scanned /\ depth = << 1 >> /\ unreadable = {}
    /\ \E f, g \in tree :
          /\ Len(f) = 2 /\ Join(f, "/") \in Range(files)
          /\ Len(g) = 3 /\ Join(g, "/") \notin Range(files)
          /\ \A k \in 1..2 : g[k] \notin SkipNames

DirComponents(p) == LET parts == SplitPath(p) IN { parts[k] : k \in 1..(Len(parts) - 1) }

\* C2: no returned path has a directory component named node_modules, dist, build
\* or .git; every file below such a directory is left out, and the scan does not
\* fail for it.
C2_SkippedDirsPruned ==
    Scanned =>
        /\ \A i \in 1..Len(files) : DirComponents(files[i]) \cap SkipNames = {}
        /\ \A f \in tree :
              (\E k \in 1..(Len(f) - 1) : f[k] \in SkipNames) =>
                  Join(f, "/") \notin Range(files)
        /\ failure = << >>

\* A scan deep enough to reach, in a readable tree, a build directory with a file
\* two levels below it, that returned other files.
C2_Witness ==
    /\ Scanned /\ unreadable = {} /\ depth = << MaxDepthArg >>
    /\ files # << >>
    /\ \E f \in tree : Len(f) >= 3 /\ f[1] = "build"
    /\ \E i \in 1..Len(files) : Basename(files[i]) = "build"

\* A directory on the way to dir, dir included, is one the scan prunes.
Pruned(dir) == \E k \in 1..Len(dir) : dir[k] \in SkipNames

\* The files the scan returns when every directory can be read.
ReturnedIfReadable ==
    { f \in tree : Len(HoldingDir(f)) <= depth[1] /\ ~Pruned(HoldingDir(f)) }

\* The file is in the subtree of directory d.
Below(d, f) == IsPrefix(d, HoldingDir(f))

\* C12: a directory whose read fails does not fail the scan; the scan returns the
\* files it returns when every directory is readable, without those of the
\* subtrees of the unreadable directories and with all the others.
C12_UnreadableSubtreeOmitted ==
    Scanned =>
        /\ failure = << >>
        /\ Range(files) =
              { Join(f, "/") : f \in { g \in ReturnedIfReadable :
                                         \A d \in unreadable : ~Below(d, g) } }
        /\ NoDuplicates(files)

\* A scan met an unreadable directory below the root, left out a file of it that
\* is within the depth, and returned a file of a sibling directory.
C12_Witness ==
    /\ Scanned
    /\ \E d \in unreadable :
          /\ d # << >>
          /\ \E f \in ReturnedIfReadable : Below(d, f) /\ Join(f, "/") \notin Range(files)
          /\ \E g \in tree :
                /\ Len(HoldingDir(g)) = Len(d) /\ HoldingDir(g) # d
                /\ Join(g, "/") \in Range(files)

-----------------------------------------------------------------------------
(* The language histogram on its own, over bounded file lists *)

\* The longest file list given to the language histogram.
MaxLangFiles == 3

LangFileNames ==
    { "a.js", "src/b.js", "C.JS", "c.css", "x.xyz", "Makefile", ".gitignore",
      "logo.png", "README.md" }

InitLang ==
    /\ pc = "languages"
    /\ host = "posix"
    /\ readdirRev = FALSE
    /\ pathKind = "dir"
    /\ inputPath = "/home/user/project"
    /\ options = DefaultOptions
    /\ tree = {}
    /\ unreadable = {}
    /\ depth = << >>
    /\ manifest = AbsentManifest
    /\ contents = EmptyObject
    /\ variant \in { "tech-detector", "standalone" }
    /\ files \in SeqsOver(LangFileNames, MaxLangFiles)
    /\ directories = EmptyObject
    /\ structure = ""
    /\ packageJson = Null
    /\ languages = << >>
    /\ frameworks = << >>
    /\ tools = << >>
    /\ insights = << >>
    /\ jsQueue = << >>
    /\ reads = << >>
    /\ failure = << >>
    /\ outcome = Running

\* detectTechStack: const languages = await detectLanguages(files)
DetectLanguages ==
    /\ pc = "languages"
    /\ variant = "tech-detector"
    /\ languages' = detectLanguages(files)
    /\ pc' = "frameworks"
    /\ UNCHANGED << inputVars, files, directories, structure, packageJson, frameworks,
                    tools, insights, jsQueue, reads, failure, outcome >>

\* The standalone analyzeProject: languageCounts and languages
StandaloneLanguages ==
    /\ pc = "languages"
    /\ variant = "standalone"
    /\ languages' = standaloneLanguages(files)
    /\ pc' = "standaloneFrameworks"
    /\ UNCHANGED << inputVars, files, directories, structure, packageJson, frameworks,
                    tools, insights, jsQueue, reads, failure, outcome >>

NextLang == DetectLanguages \/ StandaloneLanguages

SpecLang == InitLang /\ [][NextLang]_vars

-----------------------------------------------------------------------------
(* Claims about the languages list (SpecLang) *)

\* The number of files with extension e, compared case-insensitively.
ExtCount(e) == Cardinality({ i \in 1..Len(files) : ToLowerCase(Extname(files[i])) = e })

OccurringExtensions == { ToLowerCase(Extname(files[i])) : i \in 1..Len(files) } \ { "" }

\* The fixed table of the implementation that ran.
KnownExtensions ==
    IF variant = "standalone" THEN DOMAIN standaloneExtensionMap ELSE DOMAIN extensionMap

EntriesFor(e) == { k \in 1..Len(languages) : languages[k].extension = e }

\* One entry per known extension that occurs, with its count, and no other entry.
KnownLanguagesExactly ==
    /\ \A e \in OccurringExtensions \cap KnownExtensions :
          /\ Cardinality(EntriesFor(e)) = 1
          /\ \A k \in EntriesFor(e) : languages[k].count = ExtCount(e)
    /\ \A k \in 1..Len(languages) :
          languages[k].extension \in OccurringExtensions \cap KnownExtensions

\* One entry per extension that occurs, with its count, named 'Unknown (<ext>)'
\* when the table does not have it.
AllLanguagesListed ==
    /\ \A e \in OccurringExtensions :
          /\ Cardinality(EntriesFor(e)) = 1
          /\ \A k \in EntriesFor(e) :
                /\ languages[k].count = ExtCount(e)
                /\ e \notin KnownExtensions => languages[k].name = "Unknown (" \o e \o ")"
    /\ \A k \in 1..Len(languages) : languages[k].extension \in OccurringExtensions

\* C7, as claimed: whichever implementation builds it, the languages list has
\* exactly one entry per distinct known extension occurring in the file list
\* (case-insensitively), with the number of such files as its count, and no entry
\* for an extension outside the fixed table.
C7_LanguagesKnownOnly ==
    pc \in { "frameworks", "standaloneFrameworks" } => KnownLanguagesExactly

\* C7, amended: that holds of detectLanguages (utils/tech-detector.js); the
\* standalone analyzeProject lists every extension that occurs, naming one outside
\* its table 'Unknown (<ext>)'.
C7_DetectLanguagesKnownOnly ==
    /\ pc = "frameworks" => KnownLanguagesExactly
    /\ pc = "standaloneFrameworks" => AllLanguagesListed

\* detectLanguages has counted two files whose extensions differ by case only and
\* has left out a file with an unknown extension.
C7_Witness ==
    /\ pc = "frameworks"
    /\ "x.xyz" \in Range(files) /\ "C.JS" \in Range(files) /\ "a.js" \in Range(files)
    /\ \E k \in 1..Len(languages) : languages[k].extension = ".js" /\ languages[k].count = 2

\* C8: the languages list of detectLanguages is sorted by count descending, and
\* entries with equal counts are in ascending order of extension.
C8_SortedWithTieBreak ==
    pc = "frameworks" =>
        \A k \in 1..(Len(languages) - 1) :
            \/ languages[k].count > languages[k + 1].count
            \/ /\ languages[k].count = languages[k + 1].count
               /\ StrLess(languages[k].extension, languages[k + 1].extension)

\* The standalone analyzer: an entry of detectFrameworksFromFiles
Detected(name, how) == [ name |-> name, version |-> << how >> ]

detectFrameworksFromFiles(fileList) ==
    (IF \E i \in 1..Len(fileList) :
            EndsWith(fileList[i], ".jsx") \/ EndsWith(fileList[i], ".tsx")
     THEN << Detected("React", "detected from JSX files") >> ELSE << >>)
    \o (IF \E i \in 1..Len(fileList) : EndsWith(fileList[i], ".vue")
        THEN << Detected("Vue.js", "detected from Vue files") >> ELSE << >>)
    \o (IF \E i \in 1..Len(fileList) :
               Includes(fileList[i], "angular.json") \/ Includes(fileList[i], "ng-app")
        THEN << Detected("Angular", "detected from configuration") >> ELSE << >>)
    \o (IF \E i \in 1..Len(fileList) : Includes(fileList[i], "next.config.js")
        THEN << Detected("Next.js", "detected from configuration") >> ELSE << >>)
    \o (IF \E i \in 1..Len(fileList) :
               LET lowerFile == ToLowerCase(fileList[i])
               IN \/ Includes(lowerFile, "app.js")
                  \/ Includes(lowerFile, "server.js")
                  \/ Includes(lowerFile, "index.js")
        THEN << Detected("Express", "detected from server files") >> ELSE << >>)

-----------------------------------------------------------------------------
(* detectFrameworks and detectTools on their own, over bounded file lists    *)
(* and manifests                                                             *)

\* The longest file list given to detectFrameworks and detectTools.
MaxDetectFiles == 2

\* The most keys of the dependencies object.
MaxDeps == 2

DetectFileNames ==
    { "App.jsx", "src/App.tsx", ".eslintrc.json", "angular.json", ".env", "index.js" }

\* The dependency names of the manifests, in the order the objects list them,
\* each with the version it has when its version is not empty.
DepKeys == << "react", "react-dom", "eslint", "sass", "node-sass" >>

KeyVersion ==
    "react" :> "^18.2.0" @@ "react-dom" :> "^18.1.0" @@ "eslint" :> "^8.57.0" @@
    "sass" :> "^1.77.0" @@ "node-sass" :> "^9.0.0"

\* The object with the given keys, those of emptied with the version "".
DependencyObject(keys, emptied) ==
    LET present == SelectSeq(DepKeys, LAMBDA k : k \in keys)
    IN [ i \in 1..Len(present) |->
           [ key |-> present[i],
             value |-> IF present[i] \in emptied THEN "" ELSE KeyVersion[present[i]] ] ]

DependencyObjects ==
    UNION { { DependencyObject(keys, emptied) : emptied \in SUBSET keys } :
            keys \in { K \in SUBSET Range(DepKeys) : Cardinality(K) <= MaxDeps } }

DevDependencyObjects ==
    { << [ key |-> "react", value |-> "^17.0.2" ] >>,
      << [ key |-> "eslint", value |-> "" ] >> }

Optional(S) == { << >> } \cup { << x >> : x \in S }

PackageJsons ==
    { [ kind |-> "object", dependencies |-> d, devDependencies |-> v ] :
        d \in Optional(DependencyObjects), v \in Optional(DevDependencyObjects) }

InitDetect ==
    /\ pc = "frameworks"
    /\ host = "posix"
    /\ readdirRev = FALSE
    /\ pathKind = "dir"
    /\ inputPath = "/home/user/project"
    /\ options = DefaultOptions
    /\ tree = {}
    /\ unreadable = {}
    /\ depth = << >>
    /\ manifest = AbsentManifest
    /\ contents = EmptyObject
    /\ files \in SeqsOver(DetectFileNames, MaxDetectFiles)
    /\ directories = EmptyObject
    /\ structure = ""
    /\ packageJson \in { Null } \cup PackageJsons
    /\ variant \in (IF packageJson = Null THEN { "tech-detector", "standalone" }
                    ELSE { "tech-detector" })
    /\ languages = << >>
    /\ frameworks = << >>
    /\ tools = << >>
    /\ insights = << >>
    /\ jsQueue = << >>
    /\ reads = << >>
    /\ failure = << >>
    /\ outcome = Running

\* detectTechStack: const frameworks = await detectFrameworks(files, packageJson)
DetectFrameworks ==
    /\ pc = "frameworks"
    /\ variant = "tech-detector"
    /\ frameworks' = detectFrameworks(files, packageJson)
    /\ pc' = "tools"
    /\ UNCHANGED << inputVars, files, directories, structure, packageJson, languages,
                    tools, insights, jsQueue, reads, failure, outcome >>

\* detectTechStack: const tools = await detectTools(files, packageJson)
DetectTools ==
    /\ pc = "tools"
    /\ tools' = detectTools(files, packageJson)
    /\ pc' = "quality"
    /\ UNCHANGED << inputVars, files, directories, structure, packageJson, languages,
                    frameworks, insights, jsQueue, reads, failure, outcome >>

\* The standalone analyzeProject, where package.json does not exist:
\* frameworks = [...frameworks, ...detectFrameworksFromFiles(files).filter(...)]
StandaloneFrameworks ==
    /\ pc = "frameworks"
    /\ variant = "standalone"
    /\ frameworks' = detectFrameworksFromFiles(files)
    /\ pc' = "standaloneTools"
    /\ UNCHANGED << inputVars, files, directories, structure, packageJson, languages,
                    tools, insights, jsQueue, reads, failure, outcome >>

NextDetect == DetectFrameworks \/ DetectTools \/ StandaloneFrameworks

SpecDetect == InitDetect /\ [][NextDetect]_vars

-----------------------------------------------------------------------------
(* Claims about the frameworks and tools lists (SpecDetect) *)

\* The key exists in the union of dependencies and devDependencies.
InUnion(key) ==
    /\ packageJson # Null
    /\ \/ HasKey(OrEmpty(packageJson.dependencies), key)
       \/ HasKey(OrEmpty(packageJson.devDependencies), key)

\* Its version string there (that of devDependencies when both have the key).
UnionVersion(key) ==
    IF HasKey(OrEmpty(packageJson.devDependencies), key)
    THEN ValueOf(OrEmpty(packageJson.devDependencies), key)
    ELSE ValueOf(OrEmpty(packageJson.dependencies), key)

ExistingCandidates(rule) == { i \in 1..Len(rule.deps) : InUnion(rule.deps[i]) }

FirstExistingCandidate(rule) ==
    rule.deps[CHOOSE i \in ExistingCandidates(rule) : \A j \in ExistingCandidates(rule) : i <= j]

\* The list has an entry with the rule's name and the version string of the
\* rule's first candidate that exists in the union.
EmittedFromManifest(entries, rule) ==
    \E k \in 1..Len(entries) :
        /\ entries[k].name = rule.name
        /\ entries[k].version = << UnionVersion(FirstExistingCandidate(rule)) >>

\* C6: every rule of the framework and tool dependency tables one of whose
\* candidate keys exists in the union of dependencies and devDependencies, whatever
\* its version string, has an entry with the version of its first existing candidate.
C6_ManifestRuleEmitted ==
    pc = "quality" =>
        /\ \A r \in 1..Len(frameworkRules) :
              ExistingCandidates(frameworkRules[r]) # {} =>
                  EmittedFromManifest(frameworks, frameworkRules[r])
        /\ \A r \in 1..Len(toolRules) :
              ExistingCandidates(toolRules[r]) # {} =>
                  EmittedFromManifest(tools, toolRules[r])

NoTwoWithOneName(entries) ==
    \A i, j \in 1..Len(entries) : entries[i].name = entries[j].name => i = j

\* A file-pattern rule for the name matches the file list.
FrameworkPatternNamed(name) ==
    \/ \E p \in 1..Len(frameworkFilePatterns) :
          /\ frameworkFilePatterns[p].name = name
          /\ \E i \in 1..Len(files) : EndsWith(files[i], frameworkFilePatterns[p].pattern)
    \/ /\ name = "React"
       /\ \E i \in 1..Len(files) : EndsWith(files[i], ".jsx") \/ EndsWith(files[i], ".tsx")

ToolPatternNamed(name) ==
    \E p \in 1..Len(toolFilePatterns) :
        /\ toolFilePatterns[p].name = name
        /\ \E i \in 1..Len(files) : Includes(files[i], toolFilePatterns[p].pattern)

\* The entry with the rule's name carries the version of one of the rule's
\* candidates in the manifest.
ManifestSourced(entries, rule) ==
    \A k \in 1..Len(entries) :
        entries[k].name = rule.name =>
            entries[k].version \in
                { << UnionVersion(rule.deps[i]) >> : i \in ExistingCandidates(rule) }

\* The lists are complete: both of detectTechStack, or the frameworks of the
\* standalone analyzer.
ListsBuilt == pc \in { "quality", "standaloneTools" }

\* C14, as stated: with a null manifest no entry of the frameworks and tools lists,
\* whichever analyzer builds them, has a version.
C14_NullManifestNoVersion ==
    (packageJson = Null /\ ListsBuilt) =>
        /\ \A i \in 1..Len(frameworks) : frameworks[i].version = << >>
        /\ \A i \in 1..Len(tools) : tools[i].version = << >>

\* C14, amended: with a null manifest every entry of the lists detectFrameworks and
\* detectTools return is one a file-pattern rule matches, and has no version.
C14_DetectorNullManifestNoVersion ==
    (packageJson = Null /\ variant = "tech-detector" /\ pc = "quality") =>
        /\ \A i \in 1..Len(frameworks) :
              frameworks[i].version = << >> /\ FrameworkPatternNamed(frameworks[i].name)
        /\ \A i \in 1..Len(tools) :
              tools[i].version = << >> /\ ToolPatternNamed(tools[i].name)

\* detectFrameworks and detectTools have returned entries for a null manifest.
C14_Witness ==
    /\ packageJson = Null /\ variant = "tech-detector" /\ pc = "quality"
    /\ frameworks # << >>
    /\ tools # << >>

\* C5: no two frameworks and no two tools share a name, and a name matched both by
\* a manifest rule and by a file-pattern rule has the manifest-sourced entry, with
\* the manifest's version.
C5_NoDuplicateManifestWins ==
    pc = "quality" =>
        /\ NoTwoWithOneName(frameworks)
        /\ NoTwoWithOneName(tools)
        /\ \A r \in 1..Len(frameworkRules) :
              (ExistingCandidates(frameworkRules[r]) # {}
                  /\ FrameworkPatternNamed(frameworkRules[r].name)) =>
                     ManifestSourced(frameworks, frameworkRules[r])
        /\ \A r \in 1..Len(toolRules) :
              (ExistingCandidates(toolRules[r]) # {} /\ ToolPatternNamed(toolRules[r].name)) =>
                  ManifestSourced(tools, toolRules[r])

-----------------------------------------------------------------------------
(* services/analyzer.js: analyzeStructure *)

\* The property names every object literal inherits from Object.prototype.
ObjectPrototypeKeys ==
    { "constructor", "toString", "toLocaleString", "valueOf", "hasOwnProperty",
      "isPrototypeOf", "propertyIsEnumerable", "__proto__", "__defineGetter__",
      "__defineSetter__", "__lookupGetter__", "__lookupSetter__" }

NoError == << >>

PushIsNotAFunction == << "directories[dir].push is not a function" >>

RECURSIVE GroupByDirectory(_, _)
\* files.forEach(file => { const dir = path.dirname(file);
\*   if (!directories[dir]) directories[dir] = []; directories[dir].push(path.basename(file)) })
\* directories[dir] of an inherited property name is a truthy value that has no push.
GroupByDirectory(fileList, acc) ==
    IF fileList = <<>> \/ acc.error # NoError THEN acc
    ELSE LET file == Head(fileList)
             dir == Dirname(file)
         IN IF HasKey(acc.directories, dir)
            THEN GroupByDirectory(Tail(fileList),
                     [ acc EXCEPT !.directories =
                         SetKey(@, dir, Append(ValueOf(@, dir), Basename(file))) ])
            ELSE IF dir \in ObjectPrototypeKeys
            THEN [ acc EXCEPT !.error = PushIsNotAFunction ]
            ELSE GroupByDirectory(Tail(fileList),
                     [ acc EXCEPT !.directories = SetKey(@, dir, << Basename(file) >>) ])

RECURSIVE InsertString(_, _)
InsertString(sorted, x) ==
    IF sorted = <<>> THEN << x >>
    ELSE IF StrLess(x, Head(sorted)) THEN << x >> \o sorted
    ELSE << Head(sorted) >> \o InsertString(Tail(sorted), x)

RECURSIVE SortStrings(_)
\* Array.prototype.sort() without a comparator: by UTF-16 code units
SortStrings(strings) ==
    IF strings = <<>> THEN <<>>
    ELSE InsertString(SortStrings(SubSeq(strings, 1, Len(strings) - 1)), strings[Len(strings)])

ObjectKeys(obj) == [ i \in 1..Len(obj) |-> obj[i].key ]

RECURSIVE SetToStrings(_)
\* The strings of a set, in some order.
SetToStrings(S) ==
    IF S = {} THEN << >>
    ELSE LET x == CHOOSE y \in S : TRUE IN << x >> \o SetToStrings(S \ { x })

\* The groups as they were filled.
KeepEachGroup(obj) == obj

RECURSIVE SortEachGroup(_)
\* directories[dir].sort() sorts the group in place
SortEachGroup(obj) ==
    IF obj = <<>> THEN <<>>
    ELSE << [ key |-> Head(obj).key, value |-> SortStrings(Head(obj).value) ] >>
             \o SortEachGroup(Tail(obj))

RECURSIVE FileLines(_)
\* structure += `  - ${file}\n`
FileLines(names) ==
    IF names = <<>> THEN ""
    ELSE "  - " \o Head(names) \o "\n" \o FileLines(Tail(names))

RECURSIVE StructureText(_, _)
\* Object.keys(directories).sort().forEach(dir => { ... structure += '\n' })
StructureText(dirs, obj) ==
    IF dirs = <<>> THEN ""
    ELSE (IF Head(dirs) = "." THEN "Root directory:\n" ELSE Head(dirs) \o "/:\n")
             \o FileLines(ValueOf(obj, Head(dirs))) \o "\n"
             \o StructureText(Tail(dirs), obj)

analyzeStructure(fileList) ==
    LET grouped == GroupByDirectory(fileList, [ directories |-> EmptyObject, error |-> NoError ])
        sorted == SortEachGroup(grouped.directories)
    IN IF grouped.error # NoError
       THEN [ error |-> grouped.error, directories |-> EmptyObject, structure |-> "" ]
       ELSE [ error |-> NoError, directories |-> sorted,
              structure |-> StructureText(SortStrings(ObjectKeys(sorted)), sorted) ]

-----------------------------------------------------------------------------
(* analyzeStructure on its own, over bounded file lists *)

\* The longest file list given to analyzeStructure.
MaxStructFiles == 3

StructFileNames ==
    { "a.js", "b.js", "src/b.js", "src/a.js", "src/lib/c.js", "lib/a.js", "constructor/a.js" }

InitStructure ==
    /\ pc = "structure"
    /\ host = "posix"
    /\ readdirRev = FALSE
    /\ pathKind = "dir"
    /\ inputPath = "/home/user/project"
    /\ options = DefaultOptions
    /\ tree = {}
    /\ unreadable = {}
    /\ depth = << >>
    /\ manifest = AbsentManifest
    /\ contents = EmptyObject
    /\ variant = "tech-detector"
    /\ files \in SeqsOver(StructFileNames, MaxStructFiles)
    /\ directories = EmptyObject
    /\ structure = ""
    /\ packageJson = Null
    /\ languages = << >>
    /\ frameworks = << >>
    /\ tools = << >>
    /\ insights = << >>
    /\ jsQueue = << >>
    /\ reads = << >>
    /\ failure = << >>
    /\ outcome = Running

\* analyzeProject: const structure = await analyzeStructure(projectPath, files);
\* what it throws goes to analyzeProject's catch.
AnalyzeStructure ==
    /\ pc = "structure"
    /\ LET result == analyzeStructure(files)
       IN /\ directories' = result.directories
          /\ structure' = result.structure
          /\ failure' = result.error
          /\ pc' = IF result.error # NoError THEN "catch" ELSE "manifest"
    /\ UNCHANGED << inputVars, files, packageJson, languages, frameworks, tools,
                    insights, jsQueue, reads, outcome >>

NextStructure == AnalyzeStructure

SpecStructure == InitStructure /\ [][NextStructure]_vars

-----------------------------------------------------------------------------
(* Claims about the structure summary (SpecStructure) *)

FilesIn(dir) == { i \in 1..Len(files) : Dirname(files[i]) = dir }

\* The group of dir lists each file of the directory once and nothing else.
GroupHoldsExactly(dir) ==
    /\ HasKey(directories, dir)
    /\ Len(ValueOf(directories, dir)) = Cardinality(FilesIn(dir))
    /\ Range(ValueOf(directories, dir)) = { Basename(files[i]) : i \in FilesIn(dir) }

\* C17: analyzeStructure raises nothing, whatever the names of the directories and
\* files of the list: it returns the text and never ends in the caller's catch.
C17_SummarizerNeverRaises ==
    pc # "structure" => (failure = NoError /\ pc = "manifest")

\* C10: once analyzeStructure has run on a file list, its groups partition the
\* list: the groups are those of the files' parent directories ('.' for the root),
\* and each group lists the files of its directory, each once, and nothing else.
C10_GroupsPartitionFiles ==
    pc # "structure" =>
        /\ Range(ObjectKeys(directories)) = { Dirname(files[i]) : i \in 1..Len(files) }
        /\ NoDuplicates(ObjectKeys(directories))
        /\ \A i \in 1..Len(files) : GroupHoldsExactly(Dirname(files[i]))

-----------------------------------------------------------------------------
(* utils/code-quality.js *)

Insight(type, severity, message) ==
    [ type |-> type, severity |-> severity, message |-> message ]

HasToolNamed(toolList, names) == \E i \in 1..Len(toolList) : toolList[i].name \in names

\* files.some(test) is SelectSeq(files, test) # << >>
checkProjectStructure(fileList) ==
    LET hasReadme == (SelectSeq(fileList, LAMBDA file : ToLowerCase(Basename(file)) = "readme.md") # << >>)
        hasGitignore == (SelectSeq(fileList, LAMBDA file : Basename(file) = ".gitignore") # << >>)
        srcFiles == SelectSeq(fileList, LAMBDA file : ~Includes(file, "node_modules"))
        hasStructure == (SelectSeq(srcFiles, LAMBDA file :
                            \/ Includes(file, "/src/")
                            \/ Includes(file, "/lib/")
                            \/ Includes(file, "/app/")) # << >>)
    IN (IF ~hasReadme
        THEN << Insight("structure", "medium",
                   "Project is missing a README.md file. Adding documentation helps others understand your project.") >>
        ELSE << >>)
       \o (IF ~hasGitignore
           THEN << Insight("structure", "medium",
                      "Project is missing a .gitignore file. This helps prevent committing unnecessary files.") >>
           ELSE << >>)
       \o (IF ~hasStructure /\ Len(srcFiles) > 5
           THEN << Insight("structure", "low",
                      "Consider organizing your code into directories (like src/, lib/, or components/) for better maintainability.") >>
           ELSE << >>)

checkCodeIssues(fileList, toolList) ==
    LET hasLinter == HasToolNamed(toolList, { "ESLint", "TSLint" })
        hasTestFramework == HasToolNamed(toolList, { "Jest", "Mocha", "Jasmine" })
        hasTestFiles == (SelectSeq(fileList, LAMBDA file :
                            \/ Includes(file, ".test.")
                            \/ Includes(file, ".spec.")
                            \/ Includes(file, "/test/")
                            \/ Includes(file, "/tests/")) # << >>)
    IN (IF ~hasLinter
        THEN << Insight("quality", "medium",
                   "Consider adding a linter like ESLint to enforce code quality standards.") >>
        ELSE << >>)
       \o (IF ~hasTestFramework
           THEN << Insight("quality", "medium",
                      "No testing framework detected. Consider adding tests with Jest, Mocha, or another testing library.") >>
           ELSE << >>)
       \o (IF ~hasTestFiles /\ Len(fileList) > 3
           THEN << Insight("quality", "medium",
                      "No test files detected. Adding tests helps ensure your code works as expected.") >>
           ELSE << >>)

\* checkBestPractices, up to its loop over the JavaScript files
LockAndEnvInsights(fileList, toolList) ==
    LET hasLockFile == (SelectSeq(fileList, LAMBDA file :
                           Basename(file) = "package-lock.json" \/ Basename(file) = "yarn.lock") # << >>)
        hasPackageJson == (SelectSeq(fileList, LAMBDA file : Basename(file) = "package.json") # << >>)
        hasEnvConfig == (SelectSeq(fileList, LAMBDA file :
                            Basename(file) = ".env" \/ Basename(file) = ".env.example") # << >>)
        usesDotenv == HasToolNamed(toolList, { "dotenv" })
    IN (IF ~hasLockFile /\ hasPackageJson
        THEN << Insight("best-practice", "low",
                   "No lock file (package-lock.json or yarn.lock) found. Lock files help ensure consistent installations.") >>
        ELSE << >>)
       \o (IF usesDotenv /\ ~hasEnvConfig
           THEN << Insight("best-practice", "low",
                      "You're using dotenv but no .env or .env.example file was found. Consider adding an example file for documentation.") >>
           ELSE << >>)

\* files.filter(file => path.extname(file) === '.js' || path.extname(file) === '.jsx')
JsFiles(fileList) ==
    SelectSeq(fileList, LAMBDA file : Extname(file) = ".js" \/ Extname(file) = ".jsx")

\* The number of files whose content one call of checkBestPractices reads.
MaxRead == 10

\* The most elements content.split('\n') may have without an insight.
MaxLines == 300

EveryJsFile(jsFiles) == jsFiles

\* The first ten, the last of them first.
FirstJsFilesLastFirst(jsFiles) == Reverse(SubSeq(jsFiles, 1, Min(MaxRead, Len(jsFiles))))

\* jsFiles.slice(0, 10)
FirstJsFiles(jsFiles) == SubSeq(jsFiles, 1, Min(MaxRead, Len(jsFiles)))

\* fs.readFile throws for a file that has no content here.
Readable(file) == HasKey(contents, file)

\* content.split('\n').length: a text of n lines that ends with a newline splits
\* into n + 1 strings, the last one empty.
SplitLength(file) ==
    LET content == ValueOf(contents, file)
    IN content.lines + (IF content.trailingNewline THEN 1 ELSE 0)

LargeFileInsight(file) ==
    Insight("best-practice", "medium",
            "File " \o file \o " has " \o ToString(SplitLength(file))
                \o " lines. Consider breaking it into smaller modules.")

QualityUnchanged ==
    UNCHANGED << inputVars, files, directories, structure, packageJson, languages,
                 frameworks, tools, failure, outcome >>

\* analyzeCodeQuality: insights.push(...await checkProjectStructure(projectPath, files))
CheckProjectStructure ==
    /\ pc = "quality"
    /\ insights' = insights \o checkProjectStructure(files)
    /\ pc' = "codeIssues"
    /\ UNCHANGED << jsQueue, reads >>
    /\ QualityUnchanged

\* checkCodeIssues run while detectTools is still pending, on the tools found so far.
CheckCodeIssuesBeforeTools ==
    /\ pc = "tools"
    /\ insights' = insights \o checkCodeIssues(files, tools)
    /\ pc' = "bestPractices"
    /\ UNCHANGED << jsQueue, reads >>
    /\ QualityUnchanged

\* analyzeCodeQuality: insights.push(...await checkCodeIssues(projectPath, files, techStack))
CheckCodeIssues ==
    /\ pc = "codeIssues"
    /\ insights' = insights \o checkCodeIssues(files, tools)
    /\ pc' = "bestPractices"
    /\ UNCHANGED << jsQueue, reads >>
    /\ QualityUnchanged

\* checkBestPractices up to the head of its loop: for (const file of jsFiles.slice(0, 10))
CheckBestPractices ==
    /\ pc = "bestPractices"
    /\ insights' = insights \o LockAndEnvInsights(files, tools)
    /\ jsQueue' = FirstJsFiles(JsFiles(files))
    /\ pc' = "readJs"
    /\ UNCHANGED reads
    /\ QualityUnchanged

\* One turn of the loop: await fs.readFile(filePath, 'utf-8'), the line count and
\* the insight; the catch skips a file that cannot be read.
ReadJsFile ==
    /\ pc = "readJs"
    /\ jsQueue # << >>
    /\ LET file == Head(jsQueue)
       IN /\ reads' = Append(reads, file)
          /\ insights' = IF Readable(file) /\ SplitLength(file) > MaxLines
                         THEN Append(insights, LargeFileInsight(file))
                         ELSE insights
    /\ jsQueue' = Tail(jsQueue)
    /\ pc' = "readJs"
    /\ QualityUnchanged

\* The loop is over: checkBestPractices and analyzeCodeQuality return the insights.
ReturnInsights ==
    /\ pc = "readJs"
    /\ jsQueue = << >>
    /\ pc' = "return"
    /\ UNCHANGED << insights, jsQueue, reads >>
    /\ QualityUnchanged

-----------------------------------------------------------------------------
(* The quality stage on its own, over bounded file lists and contents *)

\* The most JavaScript files of a file list.
MaxJsFiles == 12

\* The i-th JavaScript file of the lists: f1.js, f2.js, f3.jsx, ...
JsName(i) == "src/f" \o ToString(i) \o (IF i % 3 = 0 THEN ".jsx" ELSE ".js")

OtherNames == { "README.md", "X.JS", "tests/data.txt", "package.json" }

\* n JavaScript files, with one other file before the k-th of them or none.
QualityFileLists ==
    { [ i \in 1..n |-> JsName(i) ] : n \in 0..MaxJsFiles }
    \cup UNION { { [ i \in 1..(n + 1) |->
                       IF i <= k THEN JsName(i) ELSE IF i = k + 1 THEN o ELSE JsName(i - 1) ] :
                   o \in OtherNames, k \in { 0, 9, 10 } \cap (0..n) } :
                 n \in 0..MaxJsFiles }

Text(lines, trailingNewline) == [ lines |-> lines, trailingNewline |-> trailingNewline ]

\* What a file holds: nothing that can be read, or a text.
ContentKinds ==
    { << >>, << Text(400, FALSE) >>, << Text(400, TRUE) >>, << Text(300, TRUE) >>,
      << Text(300, FALSE) >> }

\* Every file of the list holds base, but the odd-th JavaScript file holds other.
ContentsOf(fileList, base, odd, other) ==
    LET kindOf(file) == IF odd > 0 /\ file = JsName(odd) THEN other ELSE base
        readable == SelectSeq(fileList, LAMBDA file : kindOf(file) # << >>)
    IN [ i \in 1..Len(readable) |-> [ key |-> readable[i], value |-> kindOf(readable[i])[1] ] ]

QualityTools ==
    { << >>, << NameOnly("ESLint"), NameOnly("Jest"), NameOnly("dotenv") >> }

InitQuality ==
    /\ pc = "quality"
    /\ host = "posix"
    /\ readdirRev = FALSE
    /\ pathKind = "dir"
    /\ inputPath = "/home/user/project"
    /\ options = DefaultOptions
    /\ tree = {}
    /\ unreadable = {}
    /\ depth = << >>
    /\ manifest = AbsentManifest
    /\ variant = "tech-detector"
    /\ files \in QualityFileLists
    /\ \E base \in ContentKinds, odd \in { 0, 1, 10, 11 }, other \in ContentKinds :
          /\ odd > 0 => other # base
          /\ odd = 0 => other = << >>
          /\ contents = ContentsOf(files, base, odd, other)
    /\ directories = EmptyObject
    /\ structure = ""
    /\ packageJson = Null
    /\ languages = << >>
    /\ frameworks = << >>
    /\ tools \in QualityTools
    /\ insights = << >>
    /\ jsQueue = << >>
    /\ reads = << >>
    /\ failure = << >>
    /\ outcome = Running

NextQuality ==
    \/ CheckProjectStructure
    \/ CheckCodeIssues
    \/ CheckBestPractices
    \/ ReadJsFile
    \/ ReturnInsights

SpecQuality == InitQuality /\ [][NextQuality]_vars

-----------------------------------------------------------------------------
(* Claims about the quality stage (SpecQuality) *)

LargeFileInsights ==
    SelectSeq(insights, LAMBDA x :
        /\ x.type = "best-practice"
        /\ x.severity = "medium"
        /\ StartsWith(x.message, "File "))

\* The list has 11 JavaScript files, each a readable text of 400 lines.
ElevenFilesOf400Lines ==
    /\ Len(JsFiles(files)) = 11
    /\ \A i \in 1..11 :
          /\ Readable(JsFiles(files)[i])
          /\ ValueOf(contents, JsFiles(files)[i]).lines = 400

\* C9: the files read for the line-count rule are at most 10, and are the first
\* .js/.jsx files of the file list in its order, the first 10 of them (or all, if
\* fewer) once the stage returns; with 11 JavaScript files of 400 lines each the
\* stage returns exactly 10 large-file insights, all of medium severity, one per
\* read file, and has not read the 11th.
C9_AtMostTenFilesRead ==
    /\ Len(reads) <= 10
    /\ IsPrefix(reads, JsFiles(files))
    /\ pc = "return" =>
          /\ Len(reads) = Min(10, Len(JsFiles(files)))
          /\ ElevenFilesOf400Lines =>
                /\ Len(LargeFileInsights) = 10
                /\ \A i \in 1..10 :
                      LargeFileInsights[i] = LargeFileInsight(JsFiles(files)[i])
                /\ ~(\E i \in 1..Len(reads) : reads[i] = JsFiles(files)[11])
                /\ \A k \in 1..Len(insights) :
                      StartsWith(insights[k].message, "File ") =>
                          insights[k].severity = "medium"

\* The stage has returned on 11 JavaScript files of 400 lines each, with 10 files
\* read and 10 large-file insights.
C9_Witness ==
    /\ pc = "return"
    /\ ElevenFilesOf400Lines
    /\ Len(reads) = 10
    /\ Len(LargeFileInsights) = 10

RECURSIVE LargeFilesAmong(_)
\* The insights of the loop of checkBestPractices over these files.
LargeFilesAmong(queue) ==
    IF queue = << >> THEN << >>
    ELSE (IF Readable(Head(queue)) /\ SplitLength(Head(queue)) > MaxLines
          THEN << LargeFileInsight(Head(queue)) >> ELSE << >>)
             \o LargeFilesAmong(Tail(queue))

\* What analyzeCodeQuality returns for a file list and the tools detected.
assessQuality(fileList, toolList) ==
    checkProjectStructure(fileList) \o checkCodeIssues(fileList, toolList)
        \o LockAndEnvInsights(fileList, toolList)
        \o LargeFilesAmong(FirstJsFiles(JsFiles(fileList)))

\* The list has an insight whose message starts so.
HasInsight(list, start) == \E i \in 1..Len(list) : StartsWith(list[i].message, start)

\* The files outside the dependency cache.
OutsideCache == { i \in 1..Len(files) : "node_modules" \notin DirComponents(files[i]) }

\* A file sits below a directory named src, lib or app, top-level ones included.
Organized ==
    \E i \in OutsideCache : DirComponents(files[i]) \cap { "src", "lib", "app" } # {}

\* C18: the organize-into-directories insight, of low severity, is among the
\* insights exactly when more than 5 files are outside the dependency cache and none
\* of them is below a src, lib or app directory.
C18_OrganizeInsightExact ==
    pc # "quality" =>
        /\ HasInsight(insights, "Consider organizing your code into directories")
              <=> (Cardinality(OutsideCache) > 5 /\ ~Organized)
        /\ \A k \in 1..Len(insights) :
              StartsWith(insights[k].message, "Consider organizing") =>
                  insights[k].severity = "low"

\* A path has a .test. or .spec. marker or lies in a directory named test or tests,
\* top-level ones included.
HasTestFiles ==
    \E i \in 1..Len(files) :
        \/ Includes(files[i], ".test.") \/ Includes(files[i], ".spec.")
        \/ DirComponents(files[i]) \cap { "test", "tests" } # {}

\* C19: the no-test-files insight, of medium severity, is among the insights
\* exactly when the list has more than 3 files and none of them is a test file, and
\* the no-test-framework insight exactly when no test framework is among the tools,
\* whether or not the other is there.
C19_NoTestFilesInsightExact ==
    pc \notin { "quality", "codeIssues" } =>
        /\ HasInsight(insights, "No test files detected")
              <=> (Len(files) > 3 /\ ~HasTestFiles)
        /\ HasInsight(insights, "No testing framework detected")
              <=> ~HasToolNamed(tools, { "Jest", "Mocha", "Jasmine" })
        /\ \A k \in 1..Len(insights) :
              StartsWith(insights[k].message, "No test files") =>
                  insights[k].severity = "medium"

\* C16: the insights the quality stage returns for a file list are those it
\* returns for the same files in another order, here the reverse one.
C16_InsightsOrderIndependent ==
    pc = "return" => Range(insights) = Range(assessQuality(Reverse(files), tools))

-----------------------------------------------------------------------------
(* services/analyzer.js: analyzeProject and detectTechStack *)

\* The project path after convertPath.
ProjectPath == "/home/user/project"

\* checkIfWsl() is false on the hosts here.
HelpMsg == "\n\nMake sure the path exists and you have permission to access it."

PathErrorMissingOnly(kind) ==
    IF kind = "missing"
    THEN << "Cannot access directory: " \o ProjectPath \o ". The directory does not exist."
                \o HelpMsg >>
    ELSE NoError

\* const stats = await fs.stat(projectPath); if (!stats.isDirectory()) throw ...:
\* the inner catch wraps every error that is not ENOENT, its own included.
PathError(kind) ==
    IF kind = "missing"
    THEN << "Cannot access directory: " \o ProjectPath \o ". The directory does not exist."
                \o HelpMsg >>
    ELSE IF kind = "file"
    THEN << "Cannot access directory: " \o ProjectPath \o ". Error: Path is not a directory: "
                \o ProjectPath >>
    ELSE NoError

\* The depth analyzeProject scans to when options.depth is falsy.
DefaultDepth == 3

\* options.depth || 3
DepthOption(option) ==
    IF option = << >> THEN NumberValue(DefaultDepth)
    ELSE IF Falsy(option[1]) THEN NumberValue(DefaultDepth)
    ELSE option[1]

\* fs.readFile(packageJsonPath, 'utf-8') and JSON.parse of what it returns
ReadAndParse(m) ==
    IF m.kind = "absent"
    THEN [ error |-> << "ENOENT: no such file or directory, open '" \o ProjectPath
                            \o "/package.json'" >>, value |-> Null ]
    ELSE IF m.kind = "unreadable"
    THEN [ error |-> << "EACCES: permission denied, open '" \o ProjectPath
                            \o "/package.json'" >>, value |-> Null ]
    ELSE IF m.kind = "invalid"
    THEN [ error |-> << "Unexpected token } in JSON at position 1" >>, value |-> Null ]
    ELSE [ error |-> NoError, value |-> m.value ]

Rethrown(result) == result

\* detectTechStack: let packageJson = null; try { ... } catch (error) { /* continue */ }
CaughtAndIgnored(result) ==
    IF result.error # NoError THEN [ error |-> NoError, value |-> Null ] ELSE result

\* What analyzeProject's catch returns.
ErrorResult(message) ==
    [ status |-> "returned",
      structure |-> "Error analyzing project structure.",
      techStack |-> [ languages |-> << >>, frameworks |-> << >>, tools |-> << >> ],
      codeQuality |-> << Insight("error", "high", "Error analyzing project: " \o message) >> ]

\* analyzeProject: the try block up to the scan
CheckDirectory ==
    /\ pc = "checkDirectory"
    /\ failure' = PathError(pathKind)
    /\ pc' = IF PathError(pathKind) # NoError THEN "catch" ELSE "scan"
    /\ UNCHANGED << inputVars, files, directories, structure, packageJson, languages,
                    frameworks, tools, insights, jsQueue, reads, outcome >>

\* const files = await scanDirectory(projectPath, options.depth || 3)
ScanProject ==
    /\ pc = "scan"
    /\ files' = scanDirectory(<< >>, DepthOption(depth), 0)
    /\ pc' = "structure"
    /\ UNCHANGED << inputVars, directories, structure, packageJson, languages,
                    frameworks, tools, insights, jsQueue, reads, failure, outcome >>

\* detectTechStack: the read of package.json
ReadManifest ==
    /\ pc = "manifest"
    /\ LET result == CaughtAndIgnored(ReadAndParse(manifest))
       IN /\ packageJson' = result.value
          /\ failure' = result.error
          /\ pc' = IF result.error # NoError THEN "catch" ELSE "languages"
    /\ UNCHANGED << inputVars, files, directories, structure, languages, frameworks,
                    tools, insights, jsQueue, reads, outcome >>

\* return { structure, techStack, codeQuality }
ReturnResult ==
    /\ pc = "return"
    /\ outcome' = [ status |-> "returned",
                    structure |-> structure,
                    techStack |-> [ languages |-> languages, frameworks |-> frameworks,
                                    tools |-> tools ],
                    codeQuality |-> insights ]
    /\ pc' = "done"
    /\ UNCHANGED << inputVars, files, directories, structure, packageJson, languages,
                    frameworks, tools, insights, jsQueue, reads, failure >>

\* catch (error) { ... return { structure: 'Error analyzing project structure.', ... } }
CatchError ==
    /\ pc = "catch"
    /\ outcome' = ErrorResult(failure[1])
    /\ pc' = "done"
    /\ UNCHANGED << inputVars, files, directories, structure, packageJson, languages,
                    frameworks, tools, insights, jsQueue, reads, failure >>

-----------------------------------------------------------------------------
(* analyzeProject over bounded projects *)

\* The most files of a project.
MaxProjectFiles == 3

ProjectFiles ==
    { << "package.json" >>, << "index.js" >>, << "README.md" >>, << ".gitignore" >>,
      << "src", "App.jsx" >>, << "src", "lib", "index.js" >>,
      << "node_modules", "index.js" >>, << "constructor", "index.js" >> }

\* A root with a manifest, one script, a README and a .gitignore.
ExpressProject == { << "package.json" >>, << "index.js" >>, << "README.md" >>, << ".gitignore" >> }

ProjectTrees ==
    { t \in SUBSET ProjectFiles : Cardinality(t) <= MaxProjectFiles } \cup { ExpressProject }

Deps(entries) ==
    [ kind |-> "object", dependencies |-> << entries >>, devDependencies |-> << >> ]

ProjectManifests ==
    { [ kind |-> "unreadable", value |-> Null ],
      [ kind |-> "invalid", value |-> Null ],
      [ kind |-> "ok", value |-> Deps(<< [ key |-> "react", value |-> "^18.2.0" ] >>) ],
      [ kind |-> "ok", value |-> Deps(<< [ key |-> "eslint", value |-> "" ] >>) ],
      [ kind |-> "ok", value |-> Deps(<< [ key |-> "express", value |-> "^4.18.0" ] >>) ] }

\* The JavaScript files of the tree, each with a text of the given number of lines.
ProjectContents(t, lines) ==
    LET paths == SortStrings(SetToStrings({ Join(f, "/") : f \in t }))
        js == JsFiles(paths)
    IN [ i \in 1..Len(js) |-> [ key |-> js[i], value |-> Text(lines, FALSE) ] ]

Init ==
    /\ pc = "checkDirectory"
    /\ host \in Hosts
    /\ readdirRev = FALSE
    /\ pathKind \in { "dir", "file", "missing" }
    /\ inputPath = "/home/user/project"
    /\ options = DefaultOptions
    /\ tree \in (IF pathKind = "dir" THEN ProjectTrees ELSE { {} })
    /\ unreadable = {}
    /\ depth \in { << >>, << NumberValue(0) >>, << StringValue("0") >>, << StringValue("1") >> }
    /\ manifest \in (IF << "package.json" >> \in tree
                     THEN ProjectManifests ELSE { AbsentManifest })
    /\ contents \in { ProjectContents(tree, n) : n \in { 5, 400 } }
    /\ variant = "tech-detector"
    /\ Fresh

Next ==
    \/ CheckDirectory
    \/ ScanProject
    \/ AnalyzeStructure
    \/ ReadManifest
    \/ DetectLanguages
    \/ DetectFrameworks
    \/ DetectTools
    \/ CheckProjectStructure
    \/ CheckCodeIssues
    \/ CheckBestPractices
    \/ ReadJsFile
    \/ ReturnInsights
    \/ ReturnResult
    \/ CatchError

Spec == Init /\ [][Next]_vars

-----------------------------------------------------------------------------
(* Claims about analyzeProject (Spec) *)

\* C3, as stated: when the project path does not exist or is not a directory,
\* analyzeProject ends by propagating the error, and returns no result, a
\* placeholder included.
C3_PathErrorPropagated ==
    (pathKind # "dir" /\ pc = "done") => outcome.status = "thrown"

\* C3, amended: when the project path does not exist or is not a directory,
\* nothing is scanned or detected, and analyzeProject ends by returning the
\* placeholder result whose single insight carries the path error's message.
C3_PathErrorReturnsPlaceholder ==
    pathKind # "dir" =>
        /\ pc \in { "checkDirectory", "catch", "done" }
        /\ files = << >> /\ languages = << >> /\ frameworks = << >> /\ tools = << >>
        /\ reads = << >>
        /\ pc # "checkDirectory" => failure = PathError(pathKind) /\ failure # NoError
        /\ pc = "done" => outcome = ErrorResult(PathError(pathKind)[1])

\* analyzeProject has ended on a path that is a file, with a returned result.
C3_Witness ==
    /\ pathKind = "file"
    /\ inputPath = "/home/user/project"
    /\ options = DefaultOptions
    /\ pc = "done"
    /\ outcome.status = "returned"
    /\ outcome.structure = "Error analyzing project structure."

\* The run is on the root of package.json with dependencies { express: ^4.18.0 },
\* index.js of 5 lines, README.md and .gitignore.
OnExpressProject ==
    /\ pathKind = "dir"
    /\ tree = ExpressProject
    /\ manifest = [ kind |-> "ok",
                    value |-> Deps(<< [ key |-> "express", value |-> "^4.18.0" ] >>) ]
    /\ contents = ProjectContents(tree, 5)

\* C11: on that root analyzeProject returns the frameworks [Express ^4.18.0],
\* languages with JavaScript of count 1 and Markdown of count 1, and insights with
\* the no-linter, no-test-framework and no-test-files ones and neither the
\* missing-README nor the missing-.gitignore one.
C11_ExpressProjectResult ==
    (OnExpressProject /\ pc = "done") =>
        /\ outcome.status = "returned"
        /\ outcome.techStack.frameworks = << [ name |-> "Express", version |-> << "^4.18.0" >> ] >>
        /\ \E i \in 1..Len(outcome.techStack.languages) :
              /\ outcome.techStack.languages[i].name = "JavaScript"
              /\ outcome.techStack.languages[i].count = 1
        /\ \E i \in 1..Len(outcome.techStack.languages) :
              /\ outcome.techStack.languages[i].name = "Markdown"
              /\ outcome.techStack.languages[i].count = 1
        /\ HasInsight(outcome.codeQuality, "Consider adding a linter")
        /\ HasInsight(outcome.codeQuality, "No testing framework detected")
        /\ HasInsight(outcome.codeQuality, "No test files detected")
        /\ ~HasInsight(outcome.codeQuality, "Project is missing a README.md")
        /\ ~HasInsight(outcome.codeQuality, "Project is missing a .gitignore")

\* A run on that root has returned its four insights (the lock-file one included).
C11_Witness ==
    /\ OnExpressProject
    /\ pc = "done"
    /\ files = << ".gitignore", "README.md", "index.js", "package.json" >>
    /\ Len(outcome.codeQuality) = 4

\* The stages after the read of package.json.
PastManifest ==
    pc \in { "languages", "frameworks", "tools", "quality", "codeIssues", "bestPractices",
             "readJs", "return" }

PastFrameworks ==
    pc \in { "tools", "quality", "codeIssues", "bestPractices", "readJs", "return" }

PastTools == pc \in { "quality", "codeIssues", "bestPractices", "readJs", "return" }

\* C4: when package.json is absent, unreadable or not parseable, its read fails
\* nothing: the run goes on from it with a null manifest and no error, no run ends
\* in the catch with the read's error, and the frameworks and tools detected, and
\* returned, are those of detectFrameworks(files, null) and detectTools(files, null).
C4_BadManifestIsNull ==
    manifest.kind # "ok" =>
        /\ PastManifest => packageJson = Null /\ failure = NoError
        /\ pc = "catch" => failure # ReadAndParse(manifest).error
        /\ PastFrameworks => frameworks = detectFrameworks(files, Null)
        /\ PastTools => tools = detectTools(files, Null)
        /\ (pc = "done" /\ failure = NoError) =>
              /\ outcome.techStack.frameworks = detectFrameworks(files, Null)
              /\ outcome.techStack.tools = detectTools(files, Null)

\* A run whose package.json is not parseable has returned its result, with a
\* framework detected from the files alone.
C4_Witness ==
    /\ manifest.kind = "invalid"
    /\ pc = "done"
    /\ failure = NoError
    /\ outcome.techStack.frameworks = << NameOnly("React") >>

-----------------------------------------------------------------------------
(* The scan as the analyze command starts it: --depth as typed, deep trees *)

\* The longest chain of nested directories below the project root.
MaxChain == 6

\* A chain of directories, each with a file, and at its end possibly a symbolic
\* link loop to the root: a Dirent whose isDirectory() is false.
DepthTrees ==
    UNION { { SpineTree(sp), SpineTree(sp) \cup { Append(sp, "loop") } } :
            sp \in TuplesOver({ "src", "lib" }, MaxChain) }

\* What --depth may hold; commander's default is '3'.
DepthTexts == { "3", "0", "1", "5", "", "-1", "abc" }

InitDepth ==
    /\ pc = "scan"
    /\ host \in Hosts
    /\ readdirRev = FALSE
    /\ pathKind = "dir"
    /\ inputPath = "/home/user/project"
    /\ options = DefaultOptions
    /\ tree \in DepthTrees
    /\ unreadable = {}
    /\ depth \in { << StringValue(t) >> : t \in DepthTexts }
    /\ manifest = AbsentManifest
    /\ contents = EmptyObject
    /\ variant = "tech-detector"
    /\ Fresh

NextDepth == ScanProject

SpecDepth == InitDepth /\ [][NextDepth]_vars

\* The number the depth value stands for, the default when it stands for none.
DepthBound ==
    LET n == ToNumber(DepthOption(depth))
    IN IF n = NaN THEN DefaultDepth ELSE n[1]

\* C13: whatever --depth holds, no call of scanDirectory in the scan has a
\* currentDepth above maxDepth + 1, maxDepth being the number the value stands for
\* (the default 3 when it stands for none).
C13_RecursionWithinDepth ==
    pc = "structure" => deepestCall(<< >>, DepthOption(depth), 0) <= DepthBound + 1

-----------------------------------------------------------------------------
(* services/analyzer.js: convertPath, with path.normalize of the host *)

UpperChar(c) ==
    LET hits == { i \in 1..Len(LowerCase) : CharAt(LowerCase, i) = c }
    IN IF hits = {} THEN c ELSE CharAt(UpperCase, CHOOSE i \in hits : TRUE)

IsLowerLetter(c) == \E i \in 1..Len(LowerCase) : CharAt(LowerCase, i) = c

IsLetter(c) == IsLowerLetter(c) \/ \E i \in 1..Len(UpperCase) : CharAt(UpperCase, i) = c

RECURSIVE SplitOn(_, _)
\* The segments of p between the characters of seps.
SplitOn(p, seps) ==
    LET hits == { i \in 1..Len(p) : CharAt(p, i) \in seps }
    IN IF hits = {} THEN << p >>
       ELSE LET i == CHOOSE k \in hits : \A j \in hits : k <= j
            IN << SubSeq(p, 1, i - 1) >> \o SplitOn(SubSeq(p, i + 1, Len(p)), seps)

RECURSIVE ResolveDots(_, _, _)
\* normalizeString: empty and '.' segments go, '..' takes the segment before it,
\* stays when there is none and the path is relative.
ResolveDots(segments, acc, allowAboveRoot) ==
    IF segments = <<>> THEN acc
    ELSE LET x == Head(segments)
             rest == Tail(segments)
         IN IF x = "" \/ x = "." THEN ResolveDots(rest, acc, allowAboveRoot)
            ELSE IF x # ".." THEN ResolveDots(rest, Append(acc, x), allowAboveRoot)
            ELSE IF acc # <<>> /\ acc[Len(acc)] # ".."
            THEN ResolveDots(rest, SubSeq(acc, 1, Len(acc) - 1), allowAboveRoot)
            ELSE IF allowAboveRoot THEN ResolveDots(rest, Append(acc, ".."), allowAboveRoot)
            ELSE ResolveDots(rest, acc, allowAboveRoot)

\* path.posix.normalize
PosixNormalize(p) ==
    IF p = "" THEN "."
    ELSE LET isAbsolute == CharAt(p, 1) = "/"
             trailingSeparator == CharAt(p, Len(p)) = "/"
             path == Join(ResolveDots(SplitOn(p, { "/" }), <<>>, ~isAbsolute), "/")
         IN IF path = ""
            THEN (IF isAbsolute THEN "/" ELSE IF trailingSeparator THEN "./" ELSE ".")
            ELSE (IF isAbsolute THEN "/" ELSE "") \o path
                     \o (IF trailingSeparator THEN "/" ELSE "")

WinSeparators == { "/", "\\" }

\* path.win32.normalize of a path that is not a UNC path
Win32Normalize(p) ==
    IF p = "" THEN "."
    ELSE LET hasDevice == Len(p) >= 2 /\ IsLetter(CharAt(p, 1)) /\ CharAt(p, 2) = ":"
             device == IF hasDevice THEN SubSeq(p, 1, 2) ELSE ""
             afterDevice == IF hasDevice THEN SubSeq(p, 3, Len(p)) ELSE p
             isAbsolute == afterDevice # "" /\ CharAt(afterDevice, 1) \in WinSeparators
             resolved == Join(ResolveDots(SplitOn(afterDevice, WinSeparators), <<>>, ~isAbsolute),
                              "\\")
             tail == IF resolved = "" /\ ~isAbsolute THEN "." ELSE resolved
         IN device \o (IF isAbsolute THEN "\\" ELSE "") \o tail
                \o (IF tail # "" /\ CharAt(p, Len(p)) \in WinSeparators THEN "\\" ELSE "")

\* path.normalize
Normalize(p) == IF host = "win32" THEN Win32Normalize(p) ELSE PosixNormalize(p)

\* checkIfWsl: os.release() names microsoft or wsl
checkIfWsl == host = "wsl"

IsWindows == host = "win32"

\* /^[A-Za-z]:\\/.test(normalizedPath)
IsDrivePath(p) ==
    Len(p) >= 3 /\ IsLetter(CharAt(p, 1)) /\ CharAt(p, 2) = ":" /\ CharAt(p, 3) = "\\"

\* /^\/mnt\/[a-z]\//.test(normalizedPath)
IsMountPath(p) ==
    Len(p) >= 7 /\ StartsWith(p, "/mnt/") /\ IsLowerLetter(CharAt(p, 6)) /\ CharAt(p, 7) = "/"

convertPath(path) ==
    LET normalizedPath == Normalize(path)
        isWsl == checkIfWsl
    IN IF isWsl /\ IsDrivePath(normalizedPath)
       THEN "/mnt/" \o LowerChar(CharAt(normalizedPath, 1))
                \o ReplaceAll(SubSeq(normalizedPath, 3, Len(normalizedPath)), "\\", "/")
       ELSE IF ~isWsl /\ IsMountPath(normalizedPath)
       THEN UpperChar(CharAt(normalizedPath, 6)) \o ":"
                \o ReplaceAll(SubSeq(normalizedPath, 8, Len(normalizedPath)), "/", "\\")
       ELSE normalizedPath

-----------------------------------------------------------------------------
(* convertPath on its own, over bounded paths and the three kinds of host *)

\* The longest path below its first part, in names.
MaxRestNames == 2

PathStarts ==
    { "C:\\", "c:\\", "z:\\", "C:/", "C:", "/mnt/c/", "/mnt/z/", "/mnt/C/", "/mnt/cd/",
      "/mnt/", "mnt/c/", "\\mnt\\c\\", "/home/", "./", "" }

PathRests ==
    { Join(names, sep) \o last :
        names \in TuplesOver({ "Users", "me", ".." }, MaxRestNames),
        sep \in { "/", "\\" }, last \in { "", "/" } }

InitPath ==
    /\ pc = "convertPath"
    /\ host \in { "posix", "win32", "wsl" }
    /\ \E start \in PathStarts, rest \in PathRests : inputPath = start \o rest
    /\ options = DefaultOptions
    /\ readdirRev = FALSE
    /\ pathKind = "dir"
    /\ tree = {}
    /\ unreadable = {}
    /\ depth = << >>
    /\ manifest = AbsentManifest
    /\ contents = EmptyObject
    /\ variant = "tech-detector"
    /\ Fresh

\* analyzeProject: projectPath = convertPath(projectPath)
ConvertPath ==
    /\ pc = "convertPath"
    /\ outcome' = [ status |-> "converted", path |-> convertPath(inputPath) ]
    /\ pc' = "converted"
    /\ UNCHANGED << inputVars, files, directories, structure, packageJson, languages,
                    frameworks, tools, insights, jsQueue, reads, failure >>

NextPath == ConvertPath

SpecPath == InitPath /\ [][NextPath]_vars

\* The path has the form <letter>:\rest.
DriveForm(p) == IsDrivePath(p)

\* The path has the form /mnt/<letter>/rest.
MountForm(p) ==
    Len(p) >= 7 /\ StartsWith(p, "/mnt/") /\ IsLetter(CharAt(p, 6)) /\ CharAt(p, 7) = "/"

\* The translation as specified, of a path in the form the host's rule is about.
SpecifiedPath ==
    IF host = "wsl" /\ DriveForm(PosixNormalize(inputPath))
    THEN "/mnt/" \o LowerChar(CharAt(inputPath, 1)) \o "/"
             \o ReplaceAll(SubSeq(PosixNormalize(inputPath), 4, Len(PosixNormalize(inputPath))),
                           "\\", "/")
    ELSE IF host = "win32" /\ MountForm(PosixNormalize(inputPath))
    THEN UpperChar(CharAt(inputPath, 6)) \o ":\\"
             \o ReplaceAll(SubSeq(PosixNormalize(inputPath), 8, Len(PosixNormalize(inputPath))),
                           "/", "\\")
    ELSE Normalize(inputPath)

\* C15: convertPath returns, on a WSL host for <letter>:\rest, /mnt/<lowercased
\* letter>/rest with forward slashes; on a Windows host for /mnt/<letter>/rest,
\* <UPPERCASE letter>:\rest with backslashes; and for every other path and host the
\* normalized path.
C15_ConvertPathAsSpecified ==
    pc = "converted" => outcome.path = SpecifiedPath

-----------------------------------------------------------------------------
(* services/recommender.js: recommendResources and its resource tables *)

Resource(title, url, type, difficulty) ==
    [ title |-> title, url |-> url, type |-> type, difficulty |-> difficulty ]

getLanguageResources(language) ==
    IF language = "JavaScript" \/ language = "JavaScript (React)"
    THEN << Resource("MDN JavaScript Guide",
             "https://developer.mozilla.org/en-US/docs/Web/JavaScript/Guide",
             "documentation", "beginner-intermediate"),
       Resource("JavaScript.info",
             "https://javascript.info/",
             "tutorial", "beginner-advanced"),
       Resource("Eloquent JavaScript",
             "https://eloquentjavascript.net/",
             "book", "intermediate"),
       Resource("You Don't Know JS",
             "https://github.com/getify/You-Dont-Know-JS",
             "book", "intermediate-advanced") >>
    ELSE IF language = "TypeScript" \/ language = "TypeScript (React)"
    THEN << Resource("TypeScript Handbook",
             "https://www.typescriptlang.org/docs/handbook/intro.html",
             "documentation", "beginner-intermediate"),
       Resource("TypeScript Deep Dive",
             "https://basarat.gitbook.io/typescript/",
             "book", "intermediate-advanced") >>
    ELSE IF language = "Python"
    THEN << Resource("Python Official Documentation",
             "https://docs.python.org/3/",
             "documentation", "beginner-advanced"),
       Resource("Real Python Tutorials",
             "https://realpython.com/",
             "tutorial", "beginner-advanced") >>
    ELSE << >>

\* getReactResources: the list, and one more when TypeScript is among the languages
getReactResources(languageList) ==
    << Resource("React Official Documentation",
             "https://reactjs.org/docs/getting-started.html",
             "documentation", "beginner-advanced"),
       Resource("React Hooks Documentation",
             "https://reactjs.org/docs/hooks-intro.html",
             "documentation", "intermediate"),
       Resource("Thinking in React",
             "https://reactjs.org/docs/thinking-in-react.html",
             "tutorial", "beginner"),
       Resource("React Tutorial: Tic-Tac-Toe Game",
             "https://reactjs.org/tutorial/tutorial.html",
             "tutorial", "beginner"),
       Resource("React Router Documentation",
             "https://reactrouter.com/docs/en/v6",
             "documentation", "intermediate"),
       Resource("Redux Documentation",
             "https://redux.js.org/introduction/getting-started",
             "documentation", "intermediate"),
       Resource("React Testing Library",
             "https://testing-library.com/docs/react-testing-library/intro/",
             "documentation", "intermediate"),
       Resource("React Performance Optimization",
             "https://reactjs.org/docs/optimizing-performance.html",
             "article", "advanced") >>
    \o (IF \E i \in 1..Len(languageList) :
              languageList[i].name \in { "TypeScript", "TypeScript (React)" }
        THEN << Resource("React TypeScript Cheatsheet",
             "https://github.com/typescript-cheatsheets/react",
             "documentation", "intermediate") >>
        ELSE << >>)

getFrameworkResources(framework, languageList) ==
    IF framework = "React" THEN getReactResources(languageList)
    ELSE IF framework = "Angular"
    THEN << Resource("Angular Documentation",
             "https://angular.io/docs",
             "documentation", "intermediate"),
       Resource("Tour of Heroes Tutorial",
             "https://angular.io/tutorial",
             "tutorial", "beginner") >>
    ELSE IF framework = "Vue.js"
    THEN << Resource("Vue.js Documentation",
             "https://vuejs.org/v2/guide/",
             "documentation", "beginner-intermediate"),
       Resource("Vue Mastery",
             "https://www.vuemastery.com/",
             "course", "beginner-advanced") >>
    ELSE IF framework = "Express"
    THEN << Resource("Express Documentation",
             "https://expressjs.com/",
             "documentation", "beginner-intermediate"),
       Resource("MDN Express Tutorial",
             "https://developer.mozilla.org/en-US/docs/Learn/Server-side/Express_Nodejs",
             "tutorial", "beginner") >>
    ELSE IF framework = "AWS CDK"
    THEN << Resource("AWS CDK Developer Guide",
             "https://docs.aws.amazon.com/cdk/latest/guide/home.html",
             "documentation", "intermediate"),
       Resource("AWS CDK Workshop",
             "https://cdkworkshop.com/",
             "tutorial", "beginner-intermediate"),
       Resource("AWS CDK API Reference",
             "https://docs.aws.amazon.com/cdk/api/latest/",
             "documentation", "intermediate-advanced") >>
    ELSE << >>

getToolResources(tool) ==
    IF tool = "Webpack"
    THEN << Resource("Webpack Documentation",
             "https://webpack.js.org/concepts/",
             "documentation", "intermediate"),
       Resource("Webpack Academy",
             "https://webpack.academy/",
             "course", "intermediate-advanced") >>
    ELSE IF tool = "TypeScript"
    THEN << Resource("TypeScript Handbook",
             "https://www.typescriptlang.org/docs/handbook/intro.html",
             "documentation", "beginner-intermediate"),
       Resource("TypeScript Deep Dive",
             "https://basarat.gitbook.io/typescript/",
             "book", "intermediate-advanced") >>
    ELSE IF tool = "ESLint"
    THEN << Resource("ESLint Documentation",
             "https://eslint.org/docs/user-guide/getting-started",
             "documentation", "beginner-intermediate") >>
    ELSE IF tool = "Jest"
    THEN << Resource("Jest Documentation",
             "https://jestjs.io/docs/getting-started",
             "documentation", "beginner-intermediate"),
       Resource("Testing JavaScript with Kent C. Dodds",
             "https://testingjavascript.com/",
             "course", "intermediate-advanced") >>
    ELSE << >>

RECURSIVE LanguageResourcesOf(_)
\* for (const language of languages) resources.push(...getLanguageResources(language.name))
LanguageResourcesOf(list) ==
    IF list = << >> THEN << >>
    ELSE getLanguageResources(Head(list).name) \o LanguageResourcesOf(Tail(list))

RECURSIVE FrameworkResourcesOf(_, _)
\* for (const framework of frameworks) resources.push(...getFrameworkResources(framework.name, techStack))
FrameworkResourcesOf(list, languageList) ==
    IF list = << >> THEN << >>
    ELSE getFrameworkResources(Head(list).name, languageList)
           \o FrameworkResourcesOf(Tail(list), languageList)

RECURSIVE ToolResourcesOf(_)
\* for (const tool of tools) resources.push(...getToolResources(tool.name))
ToolResourcesOf(list) ==
    IF list = << >> THEN << >>
    ELSE getToolResources(Head(list).name) \o ToolResourcesOf(Tail(list))

RECURSIVE InsertByTitle(_, _)
InsertByTitle(sorted, x) ==
    IF sorted = << >> THEN << x >>
    ELSE IF StrLess(ToLowerCase(x.title), ToLowerCase(Head(sorted).title))
    THEN << x >> \o sorted
    ELSE << Head(sorted) >> \o InsertByTitle(Tail(sorted), x)

RECURSIVE SortByTitle(_)
\* resources.sort((a, b) => a.title.localeCompare(b.title)): a stable sort; the
\* titles, all ASCII, are compared letter by letter without regard to case
SortByTitle(resources) ==
    IF resources = << >> THEN << >>
    ELSE InsertByTitle(SortByTitle(SubSeq(resources, 1, Len(resources) - 1)),
                       resources[Len(resources)])

\* recommendResources, after the analysis returned this tech stack
recommendResources(languageList, frameworkList, toolList, opts) ==
    LET all == LanguageResourcesOf(languageList)
                 \o FrameworkResourcesOf(frameworkList, languageList)
                 \o ToolResourcesOf(toolList)
        ofType == IF opts.type # ""
                  THEN SelectSeq(all, LAMBDA r : r.type = opts.type) ELSE all
        ofDifficulty == IF opts.difficulty # << >>
                        THEN SelectSeq(ofType, LAMBDA r : Includes(r.difficulty, opts.difficulty[1]))
                        ELSE ofType
    IN SortByTitle(ofDifficulty)

-----------------------------------------------------------------------------
(* recommendResources on its own, over bounded tech stacks and options *)

\* The most languages of a tech stack.
MaxStackLanguages == 2

StackLanguages ==
    { [ i \in 1..Len(names) |-> [ name |-> names[i], count |-> 1, extension |-> "" ] ] :
        names \in SeqsOver({ "JavaScript", "TypeScript", "CSS" }, MaxStackLanguages) }

StackFrameworks ==
    { << >>, << NameOnly("React") >>, << NameOnly("Express") >>, << NameOnly("AWS CDK") >>,
      << NameOnly("React"), NameOnly("Express") >> }

StackTools ==
    { << >>, << NameOnly("ESLint") >>, << NameOnly("Jest"), NameOnly("Webpack") >>,
      << NameOnly("TypeScript"), NameOnly("dotenv") >> }

\* The options of the recommend command: --type (default 'all', 'docs' turned into
\* 'documentation'), --limit (default '5') and no difficulty, or a caller's.
RecommendOptions ==
    { [ type |-> t, limit |-> l, difficulty |-> d ] :
        t \in { "all", "documentation", "tutorial", "" },
        l \in { << >>, << "1" >>, << "5" >> },
        d \in { << >>, << "beginner" >> } }

InitRecommend ==
    /\ pc = "recommend"
    /\ host = "posix"
    /\ inputPath = "/home/user/project"
    /\ options \in RecommendOptions
    /\ readdirRev = FALSE
    /\ pathKind = "dir"
    /\ tree = {}
    /\ unreadable = {}
    /\ depth = << NumberValue(3) >>
    /\ manifest = AbsentManifest
    /\ contents = EmptyObject
    /\ variant = "tech-detector"
    /\ files = << >>
    /\ directories = EmptyObject
    /\ structure = ""
    /\ packageJson = Null
    /\ languages \in StackLanguages
    /\ frameworks \in StackFrameworks
    /\ tools \in StackTools
    /\ insights = << >>
    /\ jsQueue = << >>
    /\ reads = << >>
    /\ failure = << >>
    /\ outcome = Running

\* recommendResources, from the tech stack of the analysis to its return
RecommendResources ==
    /\ pc = "recommend"
    /\ outcome' = [ status |-> "recommended",
                    techStack |-> [ languages |-> languages, frameworks |-> frameworks,
                                    tools |-> tools ],
                    resources |-> recommendResources(languages, frameworks, tools, options) ]
    /\ pc' = "recommended"
    /\ UNCHANGED << inputVars, files, directories, structure, packageJson, languages,
                    frameworks, tools, insights, jsQueue, reads, failure >>

NextRecommend == RecommendResources

SpecRecommend == InitRecommend /\ [][NextRecommend]_vars

\* The limit asked for, 5 when none is.
LimitAsked == IF options.limit = << >> THEN 5 ELSE DecimalValue(options.limit[1], 0)

\* C20: what the recommendation layer returns has, of each category, at most as
\* many resources as the limit asked for, at most 5 when no limit is given.
C20_AtMostLimitPerCategory ==
    pc = "recommended" =>
        \A k \in 1..Len(outcome.resources) :
            Cardinality({ j \in 1..Len(outcome.resources) :
                            outcome.resources[j].type = outcome.resources[k].type })
                <= LimitAsked

\* Every resource the lookup tables hold for the technologies of the tech stack.
ResourcesOfStack ==
    LanguageResourcesOf(languages) \o FrameworkResourcesOf(frameworks, languages)
        \o ToolResourcesOf(tools)

\* C21: with recommendation type 'all', the default of the command, no resource
\* is filtered out by its type: every resource the tables hold for a detected
\* technology is in the result (a difficulty filter set aside).
C21_TypeAllKeepsEveryType ==
    (pc = "recommended" /\ options.type = "all" /\ options.difficulty = << >>) =>
        \A k \in 1..Len(ResourcesOfStack) :
            \E j \in 1..Len(outcome.resources) : outcome.resources[j] = ResourcesOfStack[k]

-----------------------------------------------------------------------------
(* services/aws-recommender.js: getAwsRecommendations, and the aws command *)

\* frameworkNames / toolNames: techStack.<list>.map(x => x.name.toLowerCase())
LowerNames(list) == { ToLowerCase(list[i].name) : i \in 1..Len(list) }

\* identifyProjectCharacteristics, on the tech stack of the analysis
identifyProjectCharacteristics(frameworkList, toolList) ==
    LET frameworkNames == LowerNames(frameworkList)
        toolNames == LowerNames(toolList)
        Some(names, known) == names \cap known # {}
    IN [ isWebApp |-> Some(frameworkNames, { "react", "vue.js", "angular", "next.js", "gatsby" }),
         isServerless |-> \E name \in toolNames :
                             \/ Includes(name, "serverless") \/ Includes(name, "lambda")
                             \/ Includes(name, "netlify") \/ Includes(name, "vercel"),
         hasDatabase |-> Some(toolNames, { "sequelize", "mongoose", "typeorm", "prisma" }),
         isStaticSite |-> Some(frameworkNames, { "gatsby", "eleventy", "jekyll" }),
         isContainerized |-> Some(toolNames, { "docker", "kubernetes", "docker-compose" }),
         hasCICD |-> Some(toolNames, { "jenkins", "travis", "circleci", "github actions" }),
         isDataProcessing |-> FALSE,
         isAI |-> Some(toolNames, { "tensorflow", "pytorch", "scikit-learn", "huggingface" }),
         isIoT |-> FALSE,
         isBackendAPI |-> Some(frameworkNames, { "express", "nestjs", "koa", "fastify" }),
         isFullStack |-> Some(frameworkNames, { "next.js", "nuxt.js", "sapper" }),
         isAuthentication |-> Some(toolNames, { "passport", "auth0", "jwt", "oauth" }),
         isFileStorage |-> Some(toolNames, { "multer", "aws-sdk", "firebase-storage" }),
         isMediaProcessing |-> FALSE,
         isMonitoring |-> FALSE,
         isDevOps |-> Some(toolNames, { "terraform", "ansible", "puppet", "chef" }),
         isInfraAsCode |-> Some(frameworkNames, { "aws cdk", "terraform", "cloudformation" }) ]

Service(name, url) == [ name |-> name, url |-> url ]

\* recommendations.<category>.push(service) when the condition holds
PushIf(condition, services) == IF condition THEN services ELSE << >>

\* parseInt of a string: the integer its longest prefix of an optional minus sign
\* and decimal digits denotes, NaN when that prefix has no digit
DigitPrefix(s) ==
    LET n == CHOOSE k \in 0..Len(s) :
                 /\ \A i \in 1..k : IsDigits(CharAt(s, i))
                 /\ (k < Len(s) => ~IsDigits(CharAt(s, k + 1)))
    IN SubSeq(s, 1, n)

ParseInt(s) ==
    IF StartsWith(s, "-")
    THEN LET digits == DigitPrefix(SubSeq(s, 2, Len(s)))
         IN IF digits = "" THEN NaN ELSE << 0 - DecimalValue(digits, 0) >>
    ELSE LET digits == DigitPrefix(s)
         IN IF digits = "" THEN NaN ELSE << DecimalValue(digits, 0) >>

\* Array.prototype.slice(0, end): a negative end counts from the end of the array
SliceFromStart(list, end) ==
    IF end >= 0 THEN SubSeq(list, 1, Min(end, Len(list)))
    ELSE SubSeq(list, 1, Max(Len(list) + end, 0))

DefaultAwsLimit == 3

\* const limit = parseInt(options.limit) || 3
AwsLimit(opts) ==
    LET parsed == IF opts.limit = << >> THEN NaN ELSE ParseInt(opts.limit[1])
    IN IF parsed = NaN \/ parsed = << 0 >> THEN DefaultAwsLimit ELSE parsed[1]

\* The categories of the recommendations object, in the order its literal lists them.
AwsCategories ==
    << "compute", "storage", "database", "networking", "devTools", "security",
       "integration", "analytics", "aiml", "iot", "management" >>

\* What recommendAwsServices pushes to a category of the recommendations object.
ServicesFor(category, c) ==
    IF category = "compute"
    THEN PushIf(c.isServerless, << Service("AWS Lambda", "https://aws.amazon.com/lambda/") >>)
         \o PushIf(c.isContainerized,
                   << Service("Amazon ECS", "https://aws.amazon.com/ecs/"),
                      Service("Amazon EKS", "https://aws.amazon.com/eks/") >>)
         \o PushIf(c.isWebApp \/ c.isBackendAPI,
                   << Service("AWS Elastic Beanstalk", "https://aws.amazon.com/elasticbeanstalk/") >>)
         \o PushIf(c.isStaticSite,
                   << Service("AWS Amplify Hosting", "https://aws.amazon.com/amplify/hosting/") >>)
    ELSE IF category = "storage"
    THEN PushIf(c.isFileStorage, << Service("Amazon S3", "https://aws.amazon.com/s3/") >>)
         \o PushIf(c.isMediaProcessing,
                   << Service("Amazon S3 Glacier", "https://aws.amazon.com/glacier/") >>)
    ELSE IF category = "database"
    THEN PushIf(c.hasDatabase,
                << Service("Amazon RDS", "https://aws.amazon.com/rds/"),
                   Service("Amazon DynamoDB", "https://aws.amazon.com/dynamodb/") >>)
    ELSE IF category = "networking"
    THEN PushIf(c.isWebApp \/ c.isBackendAPI,
                << Service("Amazon API Gateway", "https://aws.amazon.com/api-gateway/"),
                   Service("Amazon CloudFront", "https://aws.amazon.com/cloudfront/") >>)
    ELSE IF category = "devTools"
    THEN PushIf(c.hasCICD,
                << Service("AWS CodePipeline", "https://aws.amazon.com/codepipeline/"),
                   Service("AWS CodeBuild", "https://aws.amazon.com/codebuild/") >>)
         \o PushIf(c.isInfraAsCode,
                   << Service("AWS CloudFormation", "https://aws.amazon.com/cloudformation/") >>)
    ELSE IF category = "security"
    THEN PushIf(c.isAuthentication,
                << Service("Amazon Cognito", "https://aws.amazon.com/cognito/") >>)
         \o << Service("AWS IAM", "https://aws.amazon.com/iam/") >>
    ELSE IF category = "integration"
    THEN PushIf(c.isServerless,
                << Service("Amazon EventBridge", "https://aws.amazon.com/eventbridge/"),
                   Service("AWS Step Functions", "https://aws.amazon.com/step-functions/") >>)
    ELSE IF category = "analytics"
    THEN PushIf(c.isDataProcessing,
                << Service("Amazon Athena", "https://aws.amazon.com/athena/") >>)
    ELSE IF category = "aiml"
    THEN PushIf(c.isAI, << Service("Amazon SageMaker", "https://aws.amazon.com/sagemaker/") >>)
    ELSE IF category = "management"
    THEN << Service("AWS CloudWatch", "https://aws.amazon.com/cloudwatch/") >>
    ELSE << >>

\* The block of a category is entered without a filter, or when the lower-cased
\* filter is the block's name, which is all lower-case ('devtools' for devTools).
BlockEntered(category, opts) ==
    \/ opts.category = << >>
    \/ opts.category = << "" >>
    \/ ToLowerCase(opts.category[1]) = ToLowerCase(category)

\* delete recommendations[category] for the empty ones, which cuts no list
KeepNonEmpty(obj) == SelectSeq(obj, LAMBDA entry : Len(entry.value) # 0)

recommendAwsServices(c, opts) ==
    LET filled == [ i \in 1..Len(AwsCategories) |->
                      [ key |-> AwsCategories[i],
                        value |-> IF BlockEntered(AwsCategories[i], opts)
                                  THEN ServicesFor(AwsCategories[i], c) ELSE << >> ] ]
        kept == KeepNonEmpty(filled)
    IN [ i \in 1..Len(kept) |->
           [ key |-> kept[i].key, value |-> SliceFromStart(kept[i].value, AwsLimit(opts)) ] ]

\* category.charAt(0).toUpperCase() + category.slice(1) + ':'
Heading(category) ==
    (IF category = "" THEN "" ELSE UpperChar(CharAt(category, 1)) \o SubSeq(category, 2, Len(category)))
        \o ":"

\* What the aws command looks up: the lower-cased filter, or every key of the result.
ShownCategories(recommendations, opts) ==
    IF opts.category # << >> /\ opts.category # << "" >>
    THEN << ToLowerCase(opts.category[1]) >>
    ELSE ObjectKeys(recommendations)

\* The categories the command prints, each with its heading and services.
DisplayedCategories(recommendations, opts) ==
    LET categories == ShownCategories(recommendations, opts)
        shown == SelectSeq(categories,
                           LAMBDA category : /\ HasKey(recommendations, category)
                                             /\ Len(ValueOf(recommendations, category)) > 0)
    IN [ i \in 1..Len(shown) |->
           [ heading |-> Heading(shown[i]), services |-> ValueOf(recommendations, shown[i]) ] ]

NoneFoundMsg == "No AWS service recommendations found for the specified category."

-----------------------------------------------------------------------------
(* The aws command, over bounded tech stacks and options *)

AwsFrameworks ==
    { << >>, << NameOnly("React") >>, << NameOnly("Express") >>, << NameOnly("AWS CDK") >>,
      << NameOnly("Gatsby"), NameOnly("AWS CDK") >> }

AwsTools ==
    { << >>, << NameOnly("Docker") >>, << NameOnly("Sequelize") >>,
      << NameOnly("ESLint"), NameOnly("Docker") >> }

\* The category names the command's help lists, one in capitals, one that is none.
AdvertisedCategories ==
    { "compute", "storage", "database", "networking", "devtools", "security",
      "integration", "analytics", "aiml", "management" }

AwsOptions ==
    { [ category |-> c, limit |-> l, deploy |-> d ] :
        c \in { << >> } \cup { << name >> : name \in AdvertisedCategories \cup { "Compute", "iot" } },
        l \in { << >>, << "3" >>, << "1" >>, << "0" >>, << "-1" >>, << "abc" >> },
        d \in BOOLEAN }

InitAws ==
    /\ pc = "aws"
    /\ host = "posix"
    /\ inputPath = "/home/user/project"
    /\ options \in AwsOptions
    /\ readdirRev = FALSE
    /\ pathKind = "dir"
    /\ tree = {}
    /\ unreadable = {}
    /\ depth = << NumberValue(3) >>
    /\ manifest = AbsentManifest
    /\ contents = EmptyObject
    /\ variant = "tech-detector"
    /\ files = << >>
    /\ directories = EmptyObject
    /\ structure = ""
    /\ packageJson = Null
    /\ languages = << >>
    /\ frameworks \in AwsFrameworks
    /\ tools \in AwsTools
    /\ insights = << >>
    /\ jsQueue = << >>
    /\ reads = << >>
    /\ failure = << >>
    /\ outcome = Running

\* if (options.deploy && !options.category) options.category = 'compute'
WithDeployDefault(opts) ==
    IF opts.deploy /\ (opts.category = << >> \/ opts.category = << "" >>)
    THEN [ opts EXCEPT !.category = << "compute" >> ]
    ELSE opts

\* The command's action up to the return of getAwsRecommendations.
GetAwsRecommendations ==
    /\ pc = "aws"
    /\ options' = WithDeployDefault(options)
    /\ outcome' = [ status |-> "recommended",
                    recommendations |->
                        recommendAwsServices(identifyProjectCharacteristics(frameworks, tools),
                                             options') ]
    /\ pc' = "awsDisplay"
    /\ UNCHANGED << host, inputPath, readdirRev, pathKind, tree, unreadable, depth, manifest,
                    contents, variant, files, directories, structure, packageJson, languages,
                    frameworks, tools, insights, jsQueue, reads, failure >>

\* The command's action from there: the categories it prints, and the message it
\* prints when it printed none.
DisplayAwsRecommendations ==
    /\ pc = "awsDisplay"
    /\ LET displayed == DisplayedCategories(outcome.recommendations, options)
       IN outcome' = [ status |-> "displayed",
                       recommendations |-> outcome.recommendations,
                       displayed |-> displayed,
                       message |-> IF displayed = << >> THEN NoneFoundMsg ELSE "" ]
    /\ pc' = "awsDone"
    /\ UNCHANGED << inputVars, files, directories, structure, packageJson, languages,
                    frameworks, tools, insights, jsQueue, reads, failure >>

NextAws == GetAwsRecommendations \/ DisplayAwsRecommendations

SpecAws == InitAws /\ [][NextAws]_vars

\* The services the recommender produced for a category name, whatever the case
\* of the key it filed them under.
ProducedFor(name) ==
    LET hits == SelectSeq(outcome.recommendations, LAMBDA entry : ToLowerCase(entry.key) = name)
    IN IF hits = << >> THEN << >> ELSE hits[1].value

\* C22: when --category is one of the advertised names and the recommender
\* produced a service for that category, the command displays those services and
\* does not say that none was found.
C22_AdvertisedCategoryDisplayed ==
    (pc = "awsDone" /\ options.category # << >>) =>
        \A name \in AdvertisedCategories :
            (options.category[1] = name /\ ProducedFor(name) # << >>) =>
                /\ outcome.message # NoneFoundMsg
                /\ \E i \in 1..Len(outcome.displayed) :
                       outcome.displayed[i].services = ProducedFor(name)

\* The limit a run asks for: the number --limit gives, 3 when none is given.
AwsLimitAsked ==
    IF options.limit = << >> \/ ParseInt(options.limit[1]) = NaN THEN 3
    ELSE ParseInt(options.limit[1])[1]

\* C30: every category key of the result of recommendAwsServices has a list that
\* is not empty and not longer than the limit (3 when no limit is given), and
\* with a category filter the result has no key of another category.
C30_AwsResultWithinLimit ==
    pc \in { "awsDisplay", "awsDone" } =>
        \A i \in 1..Len(outcome.recommendations) :
            LET entry == outcome.recommendations[i]
            IN /\ entry.value # << >>
               /\ Len(entry.value) <= AwsLimitAsked
               /\ options.category # << >> =>
                      ToLowerCase(entry.key) = ToLowerCase(options.category[1])

-----------------------------------------------------------------------------
(* The depth the analysis scans to *)

\* The files a scan bounded by d returns.
FilesWithin(d) == { Join(f, "/") : f \in ExpectedFiles(d) }

\* C23: the scan of the analysis is bounded by the depth the caller gives, for
\* every given depth d >= 0, 0 included, and by 3 only when no depth is given.
C23_GivenDepthBoundsScan ==
    (pathKind = "dir" /\ pc \notin { "checkDirectory", "scan" }) =>
        IF depth = << >> THEN Range(files) = FilesWithin(DefaultDepth)
        ELSE LET d == ToNumber(depth[1])
             IN (d # NaN /\ d[1] >= 0) => Range(files) = FilesWithin(d[1])

-----------------------------------------------------------------------------
(* The large-file rule, file by file, and the order of the insights *)

\* The large-file insights that name this file.
InsightsNaming(file) ==
    SelectSeq(insights, LAMBDA x : StartsWith(x.message, "File " \o file \o " has "))

\* The lines of a file that can be read, a last line without newline included.
LinesOf(file) == ValueOf(contents, file).lines

\* C24: each of the first 10 .js/.jsx files gets a large-file insight, naming the
\* file and its line count, exactly when it can be read and has more than 300
\* lines, with or without a newline at its end; a file that cannot be read gets
\* none, raises nothing, and the files after it are still read.
C24_LargeFileInsightExact ==
    pc = "return" =>
        /\ failure = NoError
        /\ reads = FirstJsFiles(JsFiles(files))
        /\ \A i \in 1..Len(reads) :
              LET file == reads[i]
              IN IF Readable(file) /\ LinesOf(file) > MaxLines
                 THEN /\ Len(InsightsNaming(file)) = 1
                      /\ InsightsNaming(file)[1].message =
                            "File " \o file \o " has " \o ToString(LinesOf(file))
                                \o " lines. Consider breaking it into smaller modules."
                 ELSE InsightsNaming(file) = << >>

\* The rules in the order analyzeCodeQuality runs them, each by the start of the
\* message of its insight.
RuleMessages ==
    << "Project is missing a README.md file.",
       "Project is missing a .gitignore file.",
       "Consider organizing your code into directories",
       "Consider adding a linter",
       "No testing framework detected.",
       "No test files detected.",
       "No lock file",
       "You're using dotenv",
       "File " >>

\* The number of the rule that produced an insight, 0 for an insight of no rule.
RuleOf(insight) ==
    LET hits == { r \in 1..Len(RuleMessages) : StartsWith(insight.message, RuleMessages[r]) }
    IN IF hits = {} THEN 0 ELSE CHOOSE r \in hits : TRUE

\* The places of the file list whose file a large-file insight names.
PlacesNamed(insight) ==
    { a \in 1..Len(files) : StartsWith(insight.message, "File " \o files[a] \o " has ") }

RECURSIVE RulesOf(_)
\* The rule numbers of a list of insights, in its order.
RulesOf(list) ==
    IF list = << >> THEN << >> ELSE << RuleOf(Head(list)) >> \o RulesOf(Tail(list))

RECURSIVE PlacesOf(_)
\* For each insight of a list the places it names, none for the other rules.
PlacesOf(list) ==
    IF list = << >> THEN << >>
    ELSE << IF RuleOf(Head(list)) = 9 THEN PlacesNamed(Head(list)) ELSE {} >>
            \o PlacesOf(Tail(list))

\* Of two insights the one of the lower-numbered rule comes first, whatever the
\* severities, and of two large-file insights the one of the file that is earlier
\* in the list.
InCheckOrder ==
    LET rules == RulesOf(insights)
        places == PlacesOf(insights)
    IN \A i \in 1..Len(insights) :
          /\ rules[i] >= 1
          /\ \A j \in (i + 1)..Len(insights) :
                /\ rules[i] <= rules[j]
                /\ (rules[i] = 9 /\ rules[j] = 9) =>
                       \E a \in places[i], b \in places[j] : a < b

\* C25: the insight list is append-only and in check order: every step of a run
\* leaves the insights it had in place and adds after them, and at every moment
\* the list is in the order of the rules and, within the large-file rule, of the
\* files.
C25_InsightsInCheckOrder ==
    /\ []InCheckOrder
    /\ [][IsPrefix(insights, insights')]_vars

\* A run returned the low-severity lock-file insight before a medium-severity
\* large-file insight, and two large-file insights.
C25_Witness ==
    /\ pc = "return"
    /\ \E i, j \in 1..Len(insights) :
          /\ i < j
          /\ RuleOf(insights[i]) = 7 /\ insights[i].severity = "low"
          /\ RuleOf(insights[j]) = 9 /\ insights[j].severity = "medium"
    /\ \E i, j \in 1..Len(insights) :
          i < j /\ RuleOf(insights[i]) = 9 /\ RuleOf(insights[j]) = 9

-----------------------------------------------------------------------------
(* The order and the headings of the structure text *)

\* The strings of a set in ascending order.
Ascending(S) ==
    CHOOSE seq \in [ 1..Cardinality(S) -> S ] :
        \A i, j \in 1..Cardinality(S) : i < j => StrLess(seq[i], seq[j])

RECURSIVE GroupTexts(_)
\* The text of these directories: for each its heading, the names of its files
\* in ascending order, one to a line, and an empty line.
GroupTexts(dirs) ==
    IF dirs = << >> THEN ""
    ELSE (IF Head(dirs) = "." THEN "Root directory:" ELSE Head(dirs) \o "/:") \o "\n"
            \o FileLines(Ascending({ Basename(files[i]) : i \in FilesIn(Head(dirs)) }))
            \o "\n" \o GroupTexts(Tail(dirs))

\* C26: the structure text lists the directory groups in ascending order of path
\* and the files of each group in ascending order of name, whatever the order of
\* the input list, the root group under 'Root directory:' and every other group
\* under its path followed by '/:'.
C26_StructureTextSorted ==
    (pc = "manifest" /\ failure = NoError) =>
        structure = GroupTexts(Ascending({ Dirname(files[i]) : i \in 1..Len(files) }))

\* A text was returned for a list that names a directory before the root and, in
\* one directory, a later name before an earlier one.
C26_Witness ==
    /\ pc = "manifest"
    /\ files = << "src/b.js", "src/a.js", "a.js" >>
    /\ structure = "Root directory:\n  - a.js\n\nsrc/:\n  - a.js\n  - b.js\n\n"

-----------------------------------------------------------------------------
(* The order of the stages of one analysis *)

\* The stage a position of the analysis belongs to: 1 the check of the path, 2 the
\* scan, 3 the structure summary, 4 the manifest read and the classification, 5 the
\* quality stage, 6 the return.
StageOf(position) ==
    IF position = "checkDirectory" THEN 1
    ELSE IF position = "scan" THEN 2
    ELSE IF position = "structure" THEN 3
    ELSE IF position \in { "manifest", "languages", "frameworks", "tools" } THEN 4
    ELSE IF position \in { "quality", "codeIssues", "bestPractices", "readJs" } THEN 5
    ELSE 6

\* A step of the analysis: it does not go back to an earlier stage, and what a
\* stage produces changes in that stage only: the file list in the scan, the
\* manifest and the tech stack in the classification, the insights in the quality
\* stage.
StagedStep ==
    /\ StageOf(pc') >= StageOf(pc)
    /\ files' # files => StageOf(pc) = 2
    /\ << directories, structure >>' # << directories, structure >> => StageOf(pc) = 3
    /\ << packageJson, languages, frameworks, tools >>'
           # << packageJson, languages, frameworks, tools >> => StageOf(pc) = 4
    /\ << insights, jsQueue, reads >>' # << insights, jsQueue, reads >> => StageOf(pc) = 5

\* C27: the stages of one analysis run strictly one after another: the manifest
\* read and the classification start only once the scan has returned its files,
\* the quality stage only once the classification has returned the tech stack it
\* is given, and no step belongs to two stages.
C27_StagesInSequence == [][StagedStep]_vars

\* The quality stage is at work on a scanned project whose classification found a
\* language and a framework.
C27_Witness ==
    /\ pc = "readJs"
    /\ files # << >>
    /\ languages # << >>
    /\ frameworks # << >>
    /\ insights # << >>

-----------------------------------------------------------------------------
(* services/interactive-learning.js: the learning path and the session *)

Question(question, answer) == [ question |-> question, answer |-> answer ]

Module(title, quiz) == [ title |-> title, quiz |-> quiz ]

\* categoryInfo[category].title, or the default title of a category it lacks
CategoryTitle(category) ==
    IF category = "compute" THEN "Compute Services"
    ELSE IF category = "storage" THEN "Storage Services"
    ELSE IF category = "database" THEN "Database Services"
    ELSE IF category = "networking" THEN "Networking Services"
    ELSE IF category = "devTools" THEN "Developer Tools"
    ELSE IF category = "security" THEN "Security Services"
    ELSE IF category = "integration" THEN "Integration Services"
    ELSE IF category = "analytics" THEN "Analytics Services"
    ELSE IF category = "aiml" THEN "AI/ML Services"
    ELSE IF category = "management" THEN "Management Services"
    ELSE UpperChar(CharAt(category, 1)) \o SubSeq(category, 2, Len(category)) \o " Services"

createCategoryModule(category) ==
    Module(CategoryTitle(category),
           << Question("Which of the following is NOT an AWS " \o category \o " service?", 2) >>)

createServiceModule(service) ==
    Module(service.name,
           IF service.name = "AWS Lambda"
           THEN << Question("What is the maximum execution time for a Lambda function?", 1) >>
           ELSE IF service.name = "Amazon S3"
           THEN << Question("What is the maximum size of an object in Amazon S3?", 1) >>
           ELSE IF service.name = "Amazon DynamoDB"
           THEN << Question("Which consistency model does DynamoDB support?", 2) >>
           ELSE << Question("Which statement about " \o service.name \o " is true?", 0) >>)

RECURSIVE ServiceModules(_)
ServiceModules(services) ==
    IF services = << >> THEN << >>
    ELSE << createServiceModule(Head(services)) >> \o ServiceModules(Tail(services))

RECURSIVE CategoryModules(_)
\* Object.entries(recommendations).forEach: for a category with services its
\* overview module, then a module for each of its services
CategoryModules(recommendations) ==
    IF recommendations = << >> THEN << >>
    ELSE (IF Len(Head(recommendations).value) > 0
          THEN << createCategoryModule(Head(recommendations).key) >>
                   \o ServiceModules(Head(recommendations).value)
          ELSE << >>)
            \o CategoryModules(Tail(recommendations))

generateLearningPath(recommendations) ==
    << Module("Introduction to AWS Cloud",
              << Question("What is the main advantage of cloud computing over traditional infrastructure?", 0) >>) >>
        \o CategoryModules(recommendations)
        \o << Module("AWS Best Practices",
                     << Question("How many pillars are in the AWS Well-Architected Framework?", 2) >>) >>

\* const answerIndex = parseInt(answer) - 1, as typed when the answer is no number
AnswerIndexAsTyped(answer) == ParseInt(answer)

AnswerIndex(answer) ==
    IF ParseInt(answer) = NaN THEN NaN ELSE << ParseInt(answer)[1] - 1 >>

\* Math.round((score / totalQuestions) * 100)
Percentage(score, totalQuestions) == (200 * score + totalQuestions) \div (2 * totalQuestions)

\* What the user may type at a y/n prompt, and as the answer to a question.
YesNoAnswers == { "y", "Y", "n", "" }

QuizAnswers == { "1", "2", "3", "0", "abc" }

LearnFrameworks == { << >>, << NameOnly("Express") >> }

LearnOptions ==
    { [ category |-> c, limit |-> << >>, deploy |-> FALSE, interactive |-> TRUE ] :
        c \in { << >>, << "management" >>, << "iot" >>, << "database" >> } }

InitLearn ==
    /\ pc = "learn"
    /\ host = "posix"
    /\ inputPath = "/home/user/project"
    /\ options \in LearnOptions
    /\ readdirRev = FALSE
    /\ pathKind = "dir"
    /\ tree = {}
    /\ unreadable = {}
    /\ depth = << NumberValue(3) >>
    /\ manifest = AbsentManifest
    /\ contents = EmptyObject
    /\ variant = "tech-detector"
    /\ files = << >>
    /\ directories = EmptyObject
    /\ structure = ""
    /\ packageJson = Null
    /\ languages = << >>
    /\ frameworks \in LearnFrameworks
    /\ tools \in { << >>, << NameOnly("Sequelize") >> }
    /\ insights = << >>
    /\ jsQueue = << >>
    /\ reads = << >>
    /\ failure = << >>
    /\ outcome = Running

LearnUnchanged ==
    UNCHANGED << inputVars, files, directories, structure, packageJson, languages,
                 frameworks, tools, insights, jsQueue, reads, failure >>

\* startInteractiveLearning up to the call of runInteractiveSession, and the
\* three assignments that open it. displayed, prompts, taken and answers record
\* what the session showed and was told; the code does not hold them.
StartInteractiveLearning ==
    /\ pc = "learn"
    /\ outcome' = [ status |-> "session",
                    learningPath |->
                        generateLearningPath(
                            recommendAwsServices(
                                identifyProjectCharacteristics(frameworks, tools), options)),
                    currentModuleIndex |-> 0,
                    score |-> 0,
                    totalQuestions |-> 0,
                    question |-> 0,
                    correct |-> 0,
                    displayed |-> << >>,
                    prompts |-> 0,
                    taken |-> "",
                    answers |-> << >>,
                    completed |-> << >>,
                    percentage |-> << >> ]
    /\ pc' = "while"
    /\ LearnUnchanged

\* while (currentModuleIndex < learningPath.length): the module's title,
\* description and content are printed, or the loop ends
DisplayModule ==
    /\ pc = "while"
    /\ IF outcome.currentModuleIndex < Len(outcome.learningPath)
       THEN /\ outcome' = [ outcome EXCEPT
                              !.displayed = Append(@, outcome.currentModuleIndex + 1) ]
            /\ pc' = "takeQuiz"
       ELSE /\ outcome' = outcome
            /\ pc' = "summary"
    /\ LearnUnchanged

\* const takeQuiz = await askQuestion(...); if (takeQuiz.toLowerCase() === 'y')
AskTakeQuiz ==
    /\ pc = "takeQuiz"
    /\ \E takeQuiz \in YesNoAnswers :
          /\ outcome' = [ outcome EXCEPT !.taken = takeQuiz, !.question = 0, !.correct = 0,
                                         !.answers = << >> ]
          /\ pc' = IF ToLowerCase(takeQuiz) = "y" THEN "quiz" ELSE "continue"
    /\ LearnUnchanged

\* runQuiz: one question asked and its answer checked, or after the last one
\* the return and score += quizResult.correct; totalQuestions += quizResult.total
RunQuiz ==
    /\ pc = "quiz"
    /\ LET questions == outcome.learningPath[outcome.currentModuleIndex + 1].quiz
       IN IF outcome.question < Len(questions)
          THEN \E answer \in QuizAnswers :
                  /\ outcome' = [ outcome EXCEPT
                                    !.answers = Append(@, answer),
                                    !.correct =
                                        IF AnswerIndex(answer)
                                             = << questions[outcome.question + 1].answer >>
                                        THEN @ + 1 ELSE @,
                                    !.question = @ + 1 ]
                  /\ pc' = "quiz"
          ELSE /\ outcome' = [ outcome EXCEPT
                                 !.score = @ + outcome.correct,
                                 !.totalQuestions = @ + Len(questions) ]
               /\ pc' = "continue"
    /\ LearnUnchanged

\* if (currentModuleIndex < learningPath.length - 1) the continue prompt, and the
\* break on an answer other than y; otherwise currentModuleIndex++
AskContinue ==
    /\ pc = "continue"
    /\ IF outcome.currentModuleIndex < Len(outcome.learningPath) - 1
       THEN \E continueSession \in YesNoAnswers :
               IF ToLowerCase(continueSession) # "y"
               THEN /\ outcome' = [ outcome EXCEPT !.prompts = @ + 1 ]
                    /\ pc' = "summary"
               ELSE /\ outcome' = [ outcome EXCEPT !.prompts = @ + 1,
                                                   !.currentModuleIndex = @ + 1 ]
                    /\ pc' = "while"
       ELSE /\ outcome' = [ outcome EXCEPT !.currentModuleIndex = @ + 1 ]
            /\ pc' = "while"
    /\ LearnUnchanged

\* The summary: You completed ${currentModuleIndex} out of ${learningPath.length}
\* modules, and the quiz score with its percentage when a question was asked
ShowSummary ==
    /\ pc = "summary"
    /\ outcome' = [ outcome EXCEPT
                      !.status = "summary",
                      !.completed = << outcome.currentModuleIndex >>,
                      !.percentage = IF outcome.totalQuestions > 0
                                     THEN << Percentage(outcome.score, outcome.totalQuestions) >>
                                     ELSE << >> ]
    /\ pc' = "sessionDone"
    /\ LearnUnchanged

NextLearn ==
    \/ StartInteractiveLearning
    \/ DisplayModule
    \/ AskTakeQuiz
    \/ RunQuiz
    \/ AskContinue
    \/ ShowSummary

SpecLearn == InitLearn /\ [][NextLearn]_vars

-----------------------------------------------------------------------------
(* Claims about the interactive session (SpecLearn) *)

InSession == pc # "learn"

\* C28: the modules are displayed one at a time in the order of the learning
\* path, none twice; there is at most one continue prompt per displayed module;
\* and the number of modules the summary reports as completed is the number of
\* modules whose content was displayed, whether the session ran to the last module
\* or the user declined to continue.
C28_SummaryCountsDisplayed ==
    InSession =>
        /\ \A i \in 1..Len(outcome.displayed) : outcome.displayed[i] = i
        /\ Len(outcome.displayed) <= Len(outcome.learningPath)
        /\ outcome.prompts <= Len(outcome.displayed)
        /\ pc = "sessionDone" => outcome.completed = << Len(outcome.displayed) >>

\* The quiz of the module the session is at.
CurrentQuiz == outcome.learningPath[outcome.currentModuleIndex + 1].quiz

\* The answers of the current quiz that read as the question's answer index plus 1.
RightAnswers ==
    { i \in 1..Len(outcome.answers) :
        ParseInt(outcome.answers[i]) = << CurrentQuiz[i].answer + 1 >> }

\* 0 <= score <= totalQuestions, and a percentage between 0 and 100.
ScoreWithinTotal ==
    InSession =>
        /\ 0 <= outcome.score
        /\ outcome.score <= outcome.totalQuestions
        /\ outcome.percentage # << >> =>
              (0 <= outcome.percentage[1] /\ outcome.percentage[1] <= 100)

\* A step that changes score or totalQuestions follows a y (in either case) to
\* the module's quiz prompt, and adds the module's number of questions to
\* totalQuestions and the number of right answers to score.
ScoreStep ==
    (InSession /\ << outcome.score, outcome.totalQuestions >>
                     # << outcome'.score, outcome'.totalQuestions >>) =>
        /\ outcome.taken \in { "y", "Y" }
        /\ outcome'.totalQuestions = outcome.totalQuestions + Len(CurrentQuiz)
        /\ outcome'.score = outcome.score + Cardinality(RightAnswers)

\* C29: at every point of a session 0 <= score <= totalQuestions and the reported
\* percentage is between 0 and 100; score and totalQuestions change only after the
\* user answered y to a module's quiz prompt, totalQuestions by the number of
\* questions of the module and score by the number of answers equal to the
\* question's answer index plus 1.
C29_ScoreWithinTotal == []ScoreWithinTotal /\ [][ScoreStep]_vars

\* A session ended after two quizzes, one answered rightly and one wrongly.
C29_Witness ==
    /\ pc = "sessionDone"
    /\ outcome.totalQuestions = 2
    /\ outcome.score = 1
    /\ outcome.percentage = << 50 >>

====
